---------------------------- MODULE Spec2Model ----------------------------
(* Anomaly-detection pipeline of backEnd_Tesis: flag storage (db/repo.py), *)
(* the price, date-gap and contact-network detectors (pipes/flag_*.py) and *)
(* the orchestrator (pipes/pipeline.py).                                   *)
EXTENDS Integers, Sequences, FiniteSets, TLC

VARIABLES
  flags,                \* table public.flags: sequence of rows, in insertion order
  flags_licitaciones,   \* table public.flags_licitaciones
  flags_log,            \* table public.flags_log
  clock,                \* value the next datetime.now() returns
  calls,                \* history: arguments of the completed direct set_flag calls
  ret,                  \* the last operation: its name, arguments and outcome
  penalty_global,       \* the module global PENALTY_ESTADO of pipes/flag_precio.py, as last assigned
  threads               \* concurrent requests: each worker thread's position and local values

vars == <<flags, flags_licitaciones, flags_log, clock, calls, ret, penalty_global, threads>>

None == "None"

----------------------------------------------------------------------------
(* Bounds *)

MaxCalls == 3        \* direct set_flag calls explored
MaxTicks == 2        \* a run_for_one starts only while the clock is at most this
MaxBatchTicks == 1   \* a run_batch starts only while the clock is at most this

----------------------------------------------------------------------------
(* Generic helpers *)

Range(s) == {s[i] : i \in 1..Len(s)}

SetMax(S) == IF S = {} THEN 0 ELSE LET x == CHOOSE y \in S : \A z \in S : z <= y IN x

\* Python truthiness of an Optional[str] / Optional[dict] argument
Truthy(x) == x # None /\ x # ""

\* Python's `x or d`
Or(x, d) == IF Truthy(x) THEN x ELSE d

----------------------------------------------------------------------------
(* The persisted entities the pipeline reads and never writes.  An optional *)
(* number is the set {} (NULL / None) or {n}.                               *)

Lic(ent, mod, act, est, cu) == [entidad |-> ent, modalidad |-> mod, act_econ |-> act, estado |-> est, cuantia |-> cu]

\* public.licitacion: 13 comparable tenders (LP / obras), one tender alone in its
\* category (20) and a category of two (21, 22)
licitacion ==
  [i \in {1, 2, 3, 5, 8} \cup (10..17) \cup {20, 21, 22} |->
     CASE i = 1 -> Lic("Alcaldia", "LP", "obras", "adjudicado", {1000000})
       [] i = 2 -> Lic("Alcaldia", "LP", "obras", "adjudicado", {})
       [] i \in {3, 5, 8} -> Lic("Alcaldia", "LP", "obras", "adjudicado", {100})
       [] i \in 10..17 -> Lic("Gobernacion", "LP", "obras", "abierto", {100})
       [] i = 20 -> Lic("Alcaldia", "MC", "obras", "abierto", {50})
       [] i = 21 -> Lic("Alcaldia", "CD", "serv", "abierto", {70})
       [] OTHER -> Lic("Gobernacion", "CD", "serv", "cerrado", {80})]

LicIds == DOMAIN licitacion

\* db/schema.py EMBED_DIMS, the configured dimension: 1024 there, 2 for the vectors here
EMBED_DIMS == 2

\* an embedding as stored: its components, and whether all of them are finite
Vec(c) == [comps |-> c, finite |-> TRUE]

NonFinite(c) == [comps |-> c, finite |-> FALSE]

Chunk(i, lid, v) == [id |-> i, licitacion_id |-> lid, embedding_vec |-> v]

\* public.licitacion_chunk, in id order; every finite vector is zero or axis-aligned
licitacion_chunk ==
  << Chunk(1, 1, {Vec(<<2, 0>>)}),
     Chunk(2, 2, {Vec(<<1, 0>>)}), Chunk(3, 2, {Vec(<<0, 1>>)}),
     Chunk(4, 3, {}), Chunk(5, 3, {NonFinite(<<1, 0>>)}), Chunk(6, 3, {Vec(<<>>)}),
     Chunk(7, 5, {Vec(<<3, 0>>)}),
     Chunk(8, 8, {Vec(<<0, 3>>)}), Chunk(9, 8, {}),
     Chunk(10, 10, {Vec(<<1, 0>>)}),
     Chunk(11, 11, {Vec(<<0, 1>>)}),
     Chunk(12, 12, {Vec(<<-1, 0>>)}),
     Chunk(13, 13, {Vec(<<1, 0>>)}), Chunk(14, 13, {Vec(<<0, 1>>)}),
     Chunk(15, 14, {Vec(<<0, 0>>)}),
     Chunk(16, 15, {Vec(<<1, 0>>)}), Chunk(17, 15, {NonFinite(<<0, 1>>)}),
     Chunk(18, 16, {Vec(<<0, -1>>)}),
     Chunk(19, 17, {Vec(<<1, 0>>)}), Chunk(20, 17, {Vec(<<-1, 0>>)}), Chunk(21, 17, {Vec(<<0, 5>>)}),
     Chunk(22, 20, {Vec(<<1, 0>>)}),
     Chunk(23, 21, {Vec(<<1, 0>>)}),
     Chunk(24, 22, {Vec(<<0, 1>>)}) >>

----------------------------------------------------------------------------
(* pipes/flag_precio.py: configuration *)

TOP_K == 50

MIN_NEIGHBORS_FOR_STATS == 10

MAX_TARGET_CHUNKS == 128

MAX_CANDIDATES == 5000

MAX_CAND_PER_LIC_CHUNKS == 64

STRICT_FILTER_MODALIDAD == TRUE

STRICT_FILTER_ACT_ECON == TRUE

\* distances and penalties are in thousandths: 0.10 is 100
PENALTY_ESTADO == 100

\* |z| >= 2.8 with z = 0.6745 * num / den is 6745 * |num| >= 28000 * den
Z_MAD_THRESHOLD == [coef |-> 1349, bound |-> 5600]

----------------------------------------------------------------------------
(* Sequences and integers *)

Abs(x) == IF x < 0 THEN -x ELSE x

Sign(x) == IF x > 0 THEN 1 ELSE IF x < 0 THEN -1 ELSE 0

Max2(a, b) == IF a >= b THEN a ELSE b

Min2(a, b) == IF a <= b THEN a ELSE b

Take(sq, n) == SubSeq(sq, 1, Min2(n, Len(sq)))

RECURSIVE SumSeq(_)
SumSeq(sq) == IF sq = <<>> THEN 0 ELSE Head(sq) + SumSeq(Tail(sq))

RECURSIVE Ascending(_)
\* the elements of a finite set of integers in ascending order (ORDER BY id)
Ascending(S) == IF S = {} THEN <<>> ELSE LET m == CHOOSE x \in S : \A y \in S : x <= y IN <<m>> \o Ascending(S \ {m})

RECURSIVE InsertByScore(_, _)
\* insert x after every element whose score is <= its own: the sort stays stable
InsertByScore(sorted, x) ==
  IF sorted = <<>> THEN <<x>>
  ELSE IF Head(sorted).score <= x.score THEN <<Head(sorted)>> \o InsertByScore(Tail(sorted), x)
  ELSE <<x>> \o sorted

RECURSIVE InsertFrom(_, _)
InsertFrom(sorted, rest) == IF rest = <<>> THEN sorted ELSE InsertFrom(InsertByScore(sorted, Head(rest)), Tail(rest))

\* list.sort(key=score): ascending and stable
SortByScore(sq) == InsertFrom(<<>>, sq)

\* a * p >= b * q for naturals a, b and positive p, q, without forming the products
MulGE(a, p, b, q) == IF a \div q # b \div p THEN a \div q > b \div p ELSE (a % q) * p >= (b % p) * q

\* the largest k with k * k <= n
Isqrt(n) == CHOOSE k \in 0..1000 : k * k <= n /\ (k + 1) * (k + 1) > n

----------------------------------------------------------------------------
(* pipes/flag_precio.py: vectors.  A chunk vector is a tuple of integers;   *)
(* a pooled document vector is kept as the sum of the unit chunk vectors,   *)
(* which has the direction of the normalised mean.                          *)

\* {} when the stored value is unusable, else {components}
_to_np_vec(v) ==
  IF v = {} THEN {}
  ELSE LET a == CHOOSE x \in v : TRUE
       IN IF Len(a.comps) > 0 /\ a.finite THEN {a.comps} ELSE {}

\* x / |x| for a zero or axis-aligned x; the zero vector is returned unchanged
_l2_normalize(x) == [i \in 1..Len(x) |-> Sign(x[i])]

\* np.vstack accepts rows of one length only
SameDims(vecs) == \A i, j \in 1..Len(vecs) : Len(vecs[i]) = Len(vecs[j])

\* _l2_normalize(np.vstack(vecs).mean(axis=0)), up to a positive factor
Pool(vecs) == [i \in 1..Len(vecs[1]) |-> SumSeq([k \in 1..Len(vecs) |-> vecs[k][i]])]

Dot(a, b) == SumSeq([i \in 1..Len(a) |-> a[i] * b[i]])

\* 1000 * (1 - cos(a, b)); a zero vector normalises to itself and gives dot 0
_cosine_distance(a, b) ==
  LET na == Dot(a, a)
      nb == Dot(b, b)
      d == Dot(a, b)
  IN IF na = 0 \/ nb = 0 THEN 1000
     ELSE 1000 - Sign(d) * Isqrt((1000000 * d * d) \div (na * nb))

\* the usable, normalised chunk vectors of a sequence of chunk rows
UsableVecs(rows) ==
  LET ok == SelectSeq(rows, LAMBDA r : _to_np_vec(r.embedding_vec) # {})
  IN [k \in 1..Len(ok) |-> _l2_normalize(CHOOSE c \in _to_np_vec(ok[k].embedding_vec) : TRUE)]

\* rows of one tender with a non-NULL vector, ORDER BY id
ChunkRows(lid) == SelectSeq(licitacion_chunk, LAMBDA r : r.licitacion_id = lid /\ r.embedding_vec # {})

\* the pooling of the fetched rows; [raised, vec]: vec is {} (None) or {document vector}
DocVec(rows) ==
  LET vecs == UsableVecs(rows)
  IN IF vecs = <<>> THEN [raised |-> FALSE, vec |-> {}]
     ELSE IF ~SameDims(vecs) THEN [raised |-> TRUE, vec |-> {}]
     ELSE [raised |-> FALSE, vec |-> {Pool(vecs)}]

_fetch_target_docvec(lic_id) == DocVec(Take(ChunkRows(lic_id), MAX_TARGET_CHUNKS))

_fetch_target_meta(lic_id) ==
  [modalidad |-> licitacion[lic_id].modalidad, act_econ |-> licitacion[lic_id].act_econ,
   estado |-> licitacion[lic_id].estado, cuantia |-> licitacion[lic_id].cuantia]

\* candidate ids in id order; the header of a candidate is its licitacion row
_fetch_candidate_headers(lic_id, filt) ==
  Take(Ascending({c \in LicIds :
         /\ c # lic_id
         /\ (STRICT_FILTER_MODALIDAD /\ Truthy(filt.modalidad)) => licitacion[c].modalidad = filt.modalidad
         /\ (STRICT_FILTER_ACT_ECON /\ Truthy(filt.act_econ)) => licitacion[c].act_econ = filt.act_econ}),
       MAX_CANDIDATES)

\* [raised, vecs]: vecs maps each candidate with a usable chunk to its document vector
_fetch_candidate_chunks_docvecs(cand_ids) ==
  LET bucket(c) == UsableVecs(Take(ChunkRows(c), MAX_CAND_PER_LIC_CHUNKS))
      have == {c \in Range(cand_ids) : bucket(c) # <<>>}
  IN IF \E c \in have : ~SameDims(bucket(c)) THEN [raised |-> TRUE, vecs |-> <<>>]
     ELSE [raised |-> FALSE, vecs |-> [c \in have |-> Pool(bucket(c))]]

\* penalty is the value of the module global PENALTY_ESTADO when the call reads it
_penalty(meta_t, meta_c, penalty) ==
  IF Truthy(meta_t.estado) /\ Truthy(meta_c.estado) /\ meta_t.estado # meta_c.estado THEN penalty ELSE 0

----------------------------------------------------------------------------
(* pipes/flag_precio.py: robust statistics.  Every statistic is kept as 8   *)
(* times its value, which is an integer for integer inputs (the median of   *)
(* an even count halves, a quartile quarters, a fence halves once more).    *)

SortInts(sq) == LET r == SortByScore([i \in 1..Len(sq) |-> [score |-> sq[i]]]) IN [i \in 1..Len(sq) |-> r[i].score]

\* twice np.median of a sorted, non-empty sequence
Median2(a) == IF Len(a) % 2 = 1 THEN 2 * a[(Len(a) + 1) \div 2] ELSE a[Len(a) \div 2] + a[Len(a) \div 2 + 1]

\* four times np.percentile(a, 25 * p) (linear interpolation) of a sorted, non-empty sequence
Percentile4(a, p) ==
  LET lo == (p * (Len(a) - 1)) \div 4
      r == (p * (Len(a) - 1)) % 4
  IN IF r = 0 THEN 4 * a[lo + 1] ELSE 4 * a[lo + 1] + r * (a[lo + 2] - a[lo + 1])

RobustStats(median, mad, z_mad, q1, q3, iqr, lower, upper, n) ==
  [median |-> median, mad |-> mad, z_mad |-> z_mad, q1 |-> q1, q3 |-> q3, iqr |-> iqr, lower |-> lower, upper |-> upper, n |-> n]

\* z_mad is the pair [num, den] standing for 0.6745 * num / den
ZeroZ == [num |-> 0, den |-> 1]

\* target is {} (not finite) or {t}
_robust_stats(values, target) ==
  LET arr == SortInts(values)
      med == IF arr # <<>> THEN 4 * Median2(arr) ELSE 0
      abs_dev == IF arr # <<>> THEN SortInts([i \in 1..Len(arr) |-> Abs(8 * arr[i] - med)]) ELSE <<0>>
      mad == Median2(abs_dev) \div 2
      z_mad == IF mad = 0 \/ target = {} THEN ZeroZ
               ELSE [num |-> 8 * (CHOOSE t \in target : TRUE) - med, den |-> mad]
      q1 == IF arr # <<>> THEN 2 * Percentile4(arr, 1) ELSE 0
      q3 == IF arr # <<>> THEN 2 * Percentile4(arr, 3) ELSE 0
      iqr == q3 - q1
      lower == q1 - (3 * iqr) \div 2
      upper == q3 + (3 * iqr) \div 2
  IN RobustStats(med, mad, z_mad, q1, q3, iqr, lower, upper, Len(arr))

\* abs(z_mad) >= 2.8
AbsZAtLeast(z, th) == MulGE(Abs(z.num), th.coef, z.den, th.bound)

FlagPrecioResult(licitacion_id, n_comparables, method, stats, target_cuantia, neighbor_ids) ==
  [licitacion_id |-> licitacion_id, n_comparables |-> n_comparables, method |-> method, stats |-> stats,
   target_cuantia |-> target_cuantia, neighbor_ids |-> neighbor_ids]

\* The reads and the arithmetic of run_flag_precio_for_one for an existing tender,
\* one operator per step.  Each gives [raised, path, valor, comentario, fuente,
\* res]: the arguments of the run's one set_flag call and its result; raised
\* when numpy rejects the vectors.

EmptyStats == RobustStats(0, 0, ZeroZ, 0, 0, 0, 0, 0, 0)

PrecioOutcome(path, valor, comentario, fuente, res) ==
  [raised |-> FALSE, path |-> path, valor |-> valor, comentario |-> comentario, fuente |-> fuente, res |-> res]

PrecioRaised(licitacion_id, t_cuantia) ==
  [raised |-> TRUE, path |-> "raised", valor |-> FALSE, comentario |-> None, fuente |-> None,
   res |-> FlagPrecioResult(licitacion_id, 0, "raised", EmptyStats, t_cuantia, <<>>)]

\* 5) the verdict and its comment
PrecioVerdict(licitacion_id, t_cuantia, n, vec_ids, stats, valor_flag) ==
  PrecioOutcome("evaluated", valor_flag,
                (IF valor_flag THEN "Posible outlier de precio: cuantia=" ELSE "Precio en rango: cuantia=")
                  \o ToString(CHOOSE c \in t_cuantia : TRUE) \o "; vecinos=" \o ToString(n) \o "; metodo=chunks_mean_cos.",
                "flag_precio_chunks_mean_cos",
                FlagPrecioResult(licitacion_id, n, "chunks_mean_cos", stats, t_cuantia, vec_ids))

\* the verdict from the modified z-score alone, without the Tukey fences
PrecioDecide_mad_only(licitacion_id, t_cuantia, n, vec_ids, stats) ==
  IF t_cuantia = {}
  THEN PrecioOutcome("no_value", FALSE, "Licitacion sin cuantia; no se evalua outlier de precio.", "flag_precio_chunks_mean_cos",
                     FlagPrecioResult(licitacion_id, n, "chunks_mean_cos", stats, t_cuantia, vec_ids))
  ELSE PrecioVerdict(licitacion_id, t_cuantia, n, vec_ids, stats, AbsZAtLeast(stats.z_mad, Z_MAD_THRESHOLD))

PrecioDecide(licitacion_id, t_cuantia, n, vec_ids, stats) ==
  IF t_cuantia = {}
  THEN PrecioOutcome("no_value", FALSE, "Licitacion sin cuantia; no se evalua outlier de precio.", "flag_precio_chunks_mean_cos",
                     FlagPrecioResult(licitacion_id, n, "chunks_mean_cos", stats, t_cuantia, vec_ids))
  ELSE PrecioVerdict(licitacion_id, t_cuantia, n, vec_ids, stats,
                     \/ 8 * (CHOOSE c \in t_cuantia : TRUE) < stats.lower
                     \/ 8 * (CHOOSE c \in t_cuantia : TRUE) > stats.upper
                     \/ AbsZAtLeast(stats.z_mad, Z_MAD_THRESHOLD))

\* the too-few exit returning what the other two skip exits return
PrecioStats_skip_shape(licitacion_id, t_cuantia, valued, min_neighbors) ==
  IF Len(valued) < min_neighbors
  THEN PrecioOutcome("too_few", FALSE,
                     "Solo " \o ToString(Len(valued)) \o " comparables con cuantia; se requieren >= "
                       \o ToString(min_neighbors) \o " para evaluacion robusta.",
                     "flag_precio_chunks_mean_cos(skip)",
                     FlagPrecioResult(licitacion_id, 0, "skip", EmptyStats, t_cuantia, <<>>))
  ELSE PrecioDecide(licitacion_id, t_cuantia, Len(valued), [k \in 1..Len(valued) |-> valued[k].id],
                    _robust_stats([k \in 1..Len(valued) |-> CHOOSE c \in valued[k].cuantia : TRUE], t_cuantia))

\* 4) the neighbours with a cuantia, their ids and the statistics of their cuantias
PrecioStats(licitacion_id, t_cuantia, valued, min_neighbors) ==
  IF Len(valued) < min_neighbors
  THEN PrecioOutcome("too_few", FALSE,
                     "Solo " \o ToString(Len(valued)) \o " comparables con cuantia; se requieren >= "
                       \o ToString(min_neighbors) \o " para evaluacion robusta.",
                     "flag_precio_chunks_mean_cos(skip)",
                     FlagPrecioResult(licitacion_id, Len(valued), "chunks_mean_cos", EmptyStats, t_cuantia, [k \in 1..Len(valued) |-> valued[k].id]))
  ELSE PrecioDecide(licitacion_id, t_cuantia, Len(valued), [k \in 1..Len(valued) |-> valued[k].id],
                    _robust_stats([k \in 1..Len(valued) |-> CHOOSE c \in valued[k].cuantia : TRUE], t_cuantia))

\* scored.sort, top = scored[:max(top_k, min_neighbors)], the NaN mask
PrecioRank(licitacion_id, t_cuantia, scored, top_k, min_neighbors) ==
  IF scored = <<>>
  THEN PrecioOutcome("no_candidates", FALSE, "No hay comparables con doc_vec (chunks) validos para estimar precio.",
                     "flag_precio_chunks_mean_cos(skip)", FlagPrecioResult(licitacion_id, 0, "skip", EmptyStats, t_cuantia, <<>>))
  ELSE PrecioStats(licitacion_id, t_cuantia,
                   SelectSeq(Take(SortByScore(scored), Max2(top_k, min_neighbors)), LAMBDA x : x.cuantia # {}), min_neighbors)

\* 3) cosine distance plus penalty of every candidate that has a document vector
PrecioScore(licitacion_id, t_vec, t_meta, with_vec, vecs, top_k, min_neighbors, penalty_estado) ==
  IF \E c \in DOMAIN vecs : Len(vecs[c]) # Len(t_vec) THEN PrecioRaised(licitacion_id, t_meta.cuantia)
  ELSE PrecioRank(licitacion_id, t_meta.cuantia,
                  [k \in 1..Len(with_vec) |->
                     [id |-> with_vec[k],
                      score |-> _cosine_distance(t_vec, vecs[with_vec[k]]) + _penalty(t_meta, licitacion[with_vec[k]], penalty_estado),
                      cuantia |-> licitacion[with_vec[k]].cuantia]],
                  top_k, min_neighbors)

\* 2) the candidates and their document vectors
PrecioCandidates(licitacion_id, t_vec, t_meta, cands, cd, top_k, min_neighbors, penalty_estado) ==
  IF cd.raised THEN PrecioRaised(licitacion_id, t_meta.cuantia)
  ELSE PrecioScore(licitacion_id, t_vec, t_meta, SelectSeq(cands, LAMBDA c : c \in DOMAIN cd.vecs), cd.vecs,
                   top_k, min_neighbors, penalty_estado)

PrecioHeaders(licitacion_id, t_vec, t_meta, cands, top_k, min_neighbors, penalty_estado) ==
  PrecioCandidates(licitacion_id, t_vec, t_meta, cands, _fetch_candidate_chunks_docvecs(cands), top_k, min_neighbors, penalty_estado)

\* 1) the target's document vector
PrecioTarget(licitacion_id, t, t_meta, top_k, min_neighbors, penalty_estado) ==
  IF t.raised THEN PrecioRaised(licitacion_id, t_meta.cuantia)
  ELSE IF t.vec = {}
  THEN PrecioOutcome("no_embedding", FALSE,
                     "Sin embedding/chunks validos para el target; no se puede calcular similitud con comparables.",
                     "flag_precio(skip)", FlagPrecioResult(licitacion_id, 0, "skip", EmptyStats, t_meta.cuantia, <<>>))
  ELSE PrecioHeaders(licitacion_id, CHOOSE v \in t.vec : TRUE, t_meta, _fetch_candidate_headers(licitacion_id, t_meta),
                     top_k, min_neighbors, penalty_estado)

precio_eval(licitacion_id, top_k, min_neighbors, penalty_estado) ==
  PrecioTarget(licitacion_id, _fetch_target_docvec(licitacion_id), _fetch_target_meta(licitacion_id), top_k, min_neighbors, penalty_estado)

\* the detector as the orchestrator calls it: default parameters.  A call assigns
\* its penalty_estado to the module global before it scores, so a call that runs
\* alone scores with its own parameter.
PrecioDefault == [lid \in LicIds |-> precio_eval(lid, TOP_K, MIN_NEIGHBORS_FOR_STATS, PENALTY_ESTADO)]

----------------------------------------------------------------------------
(* The session: the three flag tables as one transaction sees them, `com` *)
(* the last committed tables (what a rollback restores).                   *)

Tables(f, fl, lg) == [flags |-> f, fli |-> fl, log |-> lg]

NewSession(f, fl, lg, clk) == [cur |-> Tables(f, fl, lg), com |-> Tables(f, fl, lg), clock |-> clk]

commit(s) == [s EXCEPT !.com = s.cur]

rollback(s) == [s EXCEPT !.cur = s.com]

\* Integer primary key of a new row
NextId(rows) == SetMax({rows[i].id : i \in 1..Len(rows)}) + 1

----------------------------------------------------------------------------
(* db/repo.py *)

\* flags.codigo is String(10): a longer code makes the INSERT fail
CODIGO_MAX_LEN == 10

FlagIdx(s, codigo) == {i \in 1..Len(s.cur.flags) : s.cur.flags[i].codigo = codigo}

FlagOf(s, codigo) == s.cur.flags[CHOOSE i \in FlagIdx(s, codigo) : TRUE]

FliIdx(s, lid, fid) == {i \in 1..Len(s.cur.fli) : s.cur.fli[i].licitacion_id = lid /\ s.cur.fli[i].flag_id = fid}

\* INSERT INTO public.flags: [s, raised]
InsertFlag(s, codigo, nombre, descripcion) ==
  IF Len(codigo) > CODIGO_MAX_LEN THEN [s |-> s, raised |-> TRUE]
  ELSE [s |-> [s EXCEPT !.cur.flags = Append(@, [id |-> NextId(@), codigo |-> codigo, nombre |-> nombre, descripcion |-> descripcion])],
        raised |-> FALSE]

\* [s, raised]
ensure_flag_by_codigo(s, codigo, nombre) ==
  IF FlagIdx(s, codigo) # {} THEN [s |-> s, raised |-> FALSE] ELSE InsertFlag(s, codigo, Or(nombre, codigo), None)

\* the log row built from an assignment that has no id yet
FlagsLog_before_flush(fli_id, valor, comentario, fuente, fecha, usuario_log) ==
  [flags_licitaciones_id |-> 0,
   cambio |-> [valor |-> valor, comentario |-> Or(comentario, ""), fuente |-> Or(fuente, "")],
   fecha |-> fecha,
   usuario |-> Or(usuario_log, "sistema")]

FlagsLog(fli_id, valor, comentario, fuente, fecha, usuario_log) ==
  [flags_licitaciones_id |-> fli_id,
   cambio |-> [valor |-> valor, comentario |-> Or(comentario, ""), fuente |-> Or(fuente, "")],
   fecha |-> fecha,
   usuario |-> Or(usuario_log, "sistema")]

\* set_flag_for_licitacion with an update branch that keeps the stored comment and source
set_flag_keeps_texts(s, licitacion_id, flag_codigo, valor, comentario, fuente, usuario_log, fecha) ==
  LET now == s.clock
      fch == IF fecha = {} THEN now ELSE CHOOSE t \in fecha : TRUE
      e == ensure_flag_by_codigo([s EXCEPT !.clock = @ + 1], flag_codigo, None)
      s1 == e.s
  IN IF e.raised THEN [s |-> s1, raised |-> TRUE, fli |-> 0]
     ELSE LET flag == FlagOf(s1, flag_codigo)
              found == FliIdx(s1, licitacion_id, flag.id)
          IN IF found = {}
             THEN IF licitacion_id \notin LicIds
                  THEN [s |-> s1, raised |-> TRUE, fli |-> 0]
                  ELSE LET fid == NextId(s1.cur.fli)
                           row == [id |-> fid, licitacion_id |-> licitacion_id, flag_id |-> flag.id, valor |-> valor,
                                   fecha_detectado |-> fch, comentario |-> comentario, fuente |-> fuente]
                           s2 == [s1 EXCEPT !.cur.fli = Append(@, row)]
                       IN [s |-> [s2 EXCEPT !.cur.log = Append(@, FlagsLog(fid, valor, comentario, fuente, fch, usuario_log))],
                           raised |-> FALSE, fli |-> fid]
             ELSE LET i == CHOOSE j \in found : TRUE
                      s2 == [s1 EXCEPT !.cur.fli[i].valor = valor, !.cur.fli[i].fecha_detectado = fch]
                      fid == s1.cur.fli[i].id
                  IN [s |-> [s2 EXCEPT !.cur.log = Append(@, FlagsLog(fid, valor, comentario, fuente, fch, usuario_log))],
                      raised |-> FALSE, fli |-> fid]

\* set_flag_for_licitacion that writes a log entry only when the stored value changes
set_flag_logs_changes(s, licitacion_id, flag_codigo, valor, comentario, fuente, usuario_log, fecha) ==
  LET now == s.clock
      fch == IF fecha = {} THEN now ELSE CHOOSE t \in fecha : TRUE
      e == ensure_flag_by_codigo([s EXCEPT !.clock = @ + 1], flag_codigo, None)
      s1 == e.s
  IN IF e.raised THEN [s |-> s1, raised |-> TRUE, fli |-> 0]
     ELSE LET flag == FlagOf(s1, flag_codigo)
              found == FliIdx(s1, licitacion_id, flag.id)
          IN IF found = {}
             THEN IF licitacion_id \notin LicIds
                  THEN [s |-> s1, raised |-> TRUE, fli |-> 0]
                  ELSE LET fid == NextId(s1.cur.fli)
                           row == [id |-> fid, licitacion_id |-> licitacion_id, flag_id |-> flag.id, valor |-> valor,
                                   fecha_detectado |-> fch, comentario |-> comentario, fuente |-> fuente]
                           s2 == [s1 EXCEPT !.cur.fli = Append(@, row)]
                       IN [s |-> [s2 EXCEPT !.cur.log = Append(@, FlagsLog(fid, valor, comentario, fuente, fch, usuario_log))],
                           raised |-> FALSE, fli |-> fid]
             ELSE LET i == CHOOSE j \in found : TRUE
                      s2 == [s1 EXCEPT !.cur.fli[i].valor = valor,
                                       !.cur.fli[i].fecha_detectado = fch,
                                       !.cur.fli[i].comentario = comentario,
                                       !.cur.fli[i].fuente = fuente]
                      fid == s1.cur.fli[i].id
                  IN [s |-> IF s1.cur.fli[i].valor = valor THEN s2
                            ELSE [s2 EXCEPT !.cur.log = Append(@, FlagsLog(fid, valor, comentario, fuente, fch, usuario_log))],
                      raised |-> FALSE, fli |-> fid]

\* Returns [s, raised, fli]: the session afterwards, whether a flush raised (a code
\* longer than flags.codigo allows, or the foreign key flags_licitaciones.licitacion_id
\* -> licitacion.id), and the id of the assignment row.
set_flag_for_licitacion(s, licitacion_id, flag_codigo, valor, comentario, fuente, usuario_log, fecha) ==
  LET now == s.clock
      fch == IF fecha = {} THEN now ELSE CHOOSE t \in fecha : TRUE
      e == ensure_flag_by_codigo([s EXCEPT !.clock = @ + 1], flag_codigo, None)
      s1 == e.s
  IN IF e.raised THEN [s |-> s1, raised |-> TRUE, fli |-> 0]
     ELSE LET flag == FlagOf(s1, flag_codigo)
              found == FliIdx(s1, licitacion_id, flag.id)
          IN IF found = {}
             THEN IF licitacion_id \notin LicIds
                  THEN [s |-> s1, raised |-> TRUE, fli |-> 0]
                  ELSE LET fid == NextId(s1.cur.fli)
                           row == [id |-> fid, licitacion_id |-> licitacion_id, flag_id |-> flag.id, valor |-> valor,
                                   fecha_detectado |-> fch, comentario |-> comentario, fuente |-> fuente]
                           s2 == [s1 EXCEPT !.cur.fli = Append(@, row)]
                       IN [s |-> [s2 EXCEPT !.cur.log = Append(@, FlagsLog(fid, valor, comentario, fuente, fch, usuario_log))],
                           raised |-> FALSE, fli |-> fid]
             ELSE LET i == CHOOSE j \in found : TRUE
                      s2 == [s1 EXCEPT !.cur.fli[i].valor = valor,
                                       !.cur.fli[i].fecha_detectado = fch,
                                       !.cur.fli[i].comentario = comentario,
                                       !.cur.fli[i].fuente = fuente]
                      fid == s1.cur.fli[i].id
                  IN [s |-> [s2 EXCEPT !.cur.log = Append(@, FlagsLog(fid, valor, comentario, fuente, fch, usuario_log))],
                      raised |-> FALSE, fli |-> fid]

\* db/deps.py get_db: commit when the handler returned, rollback when it raised
get_db(s, raised) == IF raised THEN rollback(s) ELSE commit(s)

----------------------------------------------------------------------------
(* Flag definitions written with raw SQL by the detectors *)

\* INSERT ... ON CONFLICT (codigo) DO UPDATE SET nombre, descripcion: [s, raised]
UpsertFlag(s, codigo, nombre, descripcion) ==
  IF FlagIdx(s, codigo) = {} THEN InsertFlag(s, codigo, nombre, descripcion)
  ELSE LET i == CHOOSE j \in FlagIdx(s, codigo) : TRUE
       IN [s |-> [s EXCEPT !.cur.flags[i].nombre = nombre, !.cur.flags[i].descripcion = descripcion], raised |-> FALSE]

----------------------------------------------------------------------------
(* pipes/flag_precio.py: the detector *)

\* upsert of the red_precio definition, then session.commit()
_ensure_flag(s) ==
  LET u == UpsertFlag(s, "red_precio", "Desviacion de precio (comparables)", "Evalua si la cuantia esta fuera del rango robusto (IQR/zMAD) de comparables similares.")
  IN [s |-> IF u.raised THEN u.s ELSE commit(u.s), raised |-> u.raised]

NoPrecioResult == FlagPrecioResult(0, 0, "raised", EmptyStats, {}, <<>>)

PrecioFailed(s) == [s |-> s, raised |-> TRUE, path |-> "raised", res |-> NoPrecioResult]

\* what the run returns after its set_flag call w
PrecioReturn(w, e) == [s |-> w.s, raised |-> w.raised, path |-> e.path, res |-> e.res]

\* the early exit for a target without document vector returns without set_flag
PrecioPersist_skip_unwritten(s, licitacion_id, e) ==
  IF e.raised THEN PrecioFailed(s)
  ELSE IF e.path = "no_embedding" THEN [s |-> s, raised |-> FALSE, path |-> e.path, res |-> e.res]
  ELSE PrecioReturn(set_flag_for_licitacion(s, licitacion_id, "red_precio", e.valor, e.comentario, e.fuente, "pipeline", {}), e)

\* a target without document vector is an error
PrecioPersist_no_embedding_raises(s, licitacion_id, e) ==
  IF e.raised \/ e.path = "no_embedding" THEN PrecioFailed(s)
  ELSE PrecioReturn(set_flag_for_licitacion(s, licitacion_id, "red_precio", e.valor, e.comentario, e.fuente, "pipeline", {}), e)

\* a tender that already carries the assignment is not evaluated again: the run
\* returns a skip result without writing
PrecioPersist_skips_existing(s, licitacion_id, e) ==
  IF e.raised THEN PrecioFailed(s)
  ELSE IF FliIdx(s, licitacion_id, FlagOf(s, "red_precio").id) # {}
  THEN [s |-> s, raised |-> FALSE, path |-> "cached",
        res |-> FlagPrecioResult(licitacion_id, 0, "skip", EmptyStats, e.res.target_cuantia, <<>>)]
  ELSE PrecioReturn(set_flag_for_licitacion(s, licitacion_id, "red_precio", e.valor, e.comentario, e.fuente, "pipeline", {}), e)

\* the one repo.set_flag_for_licitacion call of a run whose evaluation is e
PrecioPersist(s, licitacion_id, e) ==
  IF e.raised THEN PrecioFailed(s)
  ELSE PrecioReturn(set_flag_for_licitacion(s, licitacion_id, "red_precio", e.valor, e.comentario, e.fuente, "pipeline", {}), e)

\* after _ensure_flag: f is its [s, raised]
PrecioEnsured(f, licitacion_id) ==
  IF f.raised THEN PrecioFailed(f.s) ELSE PrecioPersist(f.s, licitacion_id, PrecioDefault[licitacion_id])

\* the definition is ensured before the tender is looked up
run_flag_precio_ensures_first(s, licitacion_id) ==
  IF licitacion_id \notin LicIds
  THEN [s |-> _ensure_flag(s).s, raised |-> TRUE, path |-> "no_existe", res |-> NoPrecioResult]
  ELSE PrecioEnsured(_ensure_flag(s), licitacion_id)

\* [s, raised, path, res]
run_flag_precio_for_one(s, licitacion_id) ==
  IF licitacion_id \notin LicIds
  THEN [s |-> s, raised |-> TRUE, path |-> "no_existe", res |-> NoPrecioResult]
  ELSE PrecioEnsured(_ensure_flag(s), licitacion_id)

----------------------------------------------------------------------------
(* pipes/flag_fecha.py.  A timestamp is [d, m]: the day number (day 0 is a *)
(* Monday) and the minute of the day; an optional timestamp is {} or {ts}. *)

FLAG_CODE_FECHA == "F-GAP-APERT"

FLAG_NAME_FECHA == "Gap aceptacion vs apertura (dias habiles)"

Ts(d, m) == [d |-> d, m |-> m]

TsLess(a, b) == a.d < b.d \/ (a.d = b.d /\ a.m < b.m)

Cal(archivo, acc, ape) == [archivo |-> archivo, aceptacion_ofertas_ts |-> acc, apertura_ofertas_ts |-> ape]

\* licitacion_keymap JOIN staging.secop_calendario_norm: the row of each mapped tender
calendario ==
  [i \in {1, 2, 5, 20} |->
     CASE i = 1 -> Cal("A-1", {Ts(0, 600)}, {Ts(9, 540)})
       [] i = 2 -> Cal("A-2", {}, {Ts(3, 0)})
       [] i = 5 -> Cal("A-5", {Ts(4, 30)}, {Ts(1, 30)})
       [] OTHER -> Cal("A-20", {Ts(2, 10)}, {Ts(2, 700)})]

\* a week that starts on Sunday
weekday_sunday_first(d) == (d + 1) % 7

weekday(d) == d % 7

RECURSIVE BusinessLoop(_, _, _, _)
\* while cur < end: count cur when it is a weekday and no holiday; cur += 1 day
BusinessLoop(cur, end, holidays, days) ==
  IF cur < end
  THEN BusinessLoop(cur + 1, end, holidays, IF weekday(cur) < 5 /\ (holidays = {} \/ cur \notin holidays) THEN days + 1 ELSE days)
  ELSE days

\* the count without the swap of a later first date: the loop never runs
_business_days_no_swap(d1, d2, holidays) ==
  IF d1 = {} \/ d2 = {} THEN {}
  ELSE {BusinessLoop((CHOOSE t \in d1 : TRUE).d, (CHOOSE t \in d2 : TRUE).d, holidays, 0)}

\* {} (None) when a timestamp is missing, else {days}
_business_days(d1, d2, holidays) ==
  IF d1 = {} \/ d2 = {} THEN {}
  ELSE LET a == CHOOSE t \in d1 : TRUE
           b == CHOOSE t \in d2 : TRUE
           first == IF TsLess(b, a) THEN b ELSE a
           last == IF TsLess(b, a) THEN a ELSE b
       IN {BusinessLoop(first.d, last.d, holidays, 0)}

\* a dict is a function on its keys; NoDict stands for None
NoDict == [none |-> TRUE]

EmptyDict == [k \in {} |-> k]

\* a test for None alone: an empty dict passes
TruthyDict_not_none(d) == d # NoDict

\* Python truthiness of an optional dict
TruthyDict(d) == d # NoDict /\ DOMAIN d # {}

OrEmpty(d) == IF TruthyDict(d) THEN d ELSE EmptyDict

Get(d, k, default) == IF k \in DOMAIN d THEN d[k] ELSE default

\* insert with id MAX(id)+1 when the code is new, else update: [s, raised]
_ensure_flag_fecha(s, threshold) ==
  UpsertFlag(s, FLAG_CODE_FECHA, FLAG_NAME_FECHA, "Son {n} dias habiles que duro el proceso; la regla vigente espera <= " \o ToString(threshold) \o " dias habiles.")

FechaRaised(s) == [s |-> s, raised |-> TRUE, result |-> [ok |-> FALSE, flow |-> "gap_fechas", reason |-> "raised"]]

\* what the run returns after its set_flag call w
FechaReturn(w, row, n, threshold) ==
  IF w.raised THEN FechaRaised(w.s)
  ELSE [s |-> w.s, raised |-> FALSE,
        result |-> [ok |-> TRUE, flow |-> "gap_fechas", flag_applied |-> n > threshold,
                    detail |-> [dias_habiles |-> n, threshold |-> threshold, archivo |-> row.archivo,
                                aceptacion_ofertas_ts |-> row.aceptacion_ofertas_ts,
                                apertura_ofertas_ts |-> row.apertura_ofertas_ts]]]

\* after _ensure_flag: f is its [s, raised]
FechaEnsured(f, licitacion_id, row, n, threshold) ==
  IF f.raised THEN FechaRaised(f.s)
  ELSE FechaReturn(set_flag_for_licitacion(f.s, licitacion_id, FLAG_CODE_FECHA, n > threshold,
                                           "Gap: " \o ToString(n) \o " dias habiles (archivo=" \o row.archivo \o "); se espera <= "
                                             \o ToString(threshold) \o " dias habiles.",
                                           "pipe:gap_fechas", "pipeline", {}),
                   row, n, threshold)

\* the run for a calendar row and its business days dias ({} or {n})
FechaRow(s, licitacion_id, row, dias, threshold) ==
  IF dias = {}
  THEN [s |-> s, raised |-> FALSE, result |-> [ok |-> FALSE, flow |-> "gap_fechas", reason |-> "fechas_incompletas"]]
  ELSE FechaEnsured(_ensure_flag_fecha(s, threshold), licitacion_id, row, CHOOSE x \in dias : TRUE, threshold)

\* [s, raised, result]
run_flag_fecha_for_one(s, licitacion_id, json_override) ==
  IF licitacion_id \notin DOMAIN calendario
  THEN [s |-> s, raised |-> FALSE, result |-> [ok |-> FALSE, flow |-> "gap_fechas", reason |-> "sin_calendario"]]
  ELSE FechaRow(s, licitacion_id, calendario[licitacion_id],
                _business_days(calendario[licitacion_id].aceptacion_ofertas_ts, calendario[licitacion_id].apertura_ofertas_ts,
                               Get(OrEmpty(json_override), "holidays", {})),
                Get(OrEmpty(json_override), "threshold", 5))


----------------------------------------------------------------------------
(* pipes/flag_redcontactos.py.  Strings of a payload carry no surrounding  *)
(* blanks; None is a missing or null value.                                 *)

FLAG_CODE_CONTACTOS == "red_contac"

\* str.lower() on the names the payloads use
Lower(x) ==
  CASE x = "ANA" -> "ana" [] x = "Ana" -> "ana" [] x = "Beto" -> "beto" [] x = "Caro" -> "caro"
    [] x = "Dani" -> "dani" [] x = "Alcaldia" -> "alcaldia" [] x = "ALCALDIA" -> "alcaldia"
    [] x = "Gobernacion" -> "gobernacion" [] x = "Publico" -> "publico" [] OTHER -> x

_safe_str(x) == IF x # None /\ x # "" THEN x ELSE None

_norm_name(x) == IF Truthy(x) THEN _safe_str(Lower(x)) ELSE None

FirstTruthy(xs) == IF \E i \in 1..Len(xs) : Truthy(xs[i]) THEN xs[CHOOSE i \in 1..Len(xs) : Truthy(xs[i]) /\ \A j \in 1..(i - 1) : ~Truthy(xs[j])] ELSE xs[Len(xs)]

Persona(id, nombre, entidad, ent_publica, es_contratista, conexiones) ==
  [id |-> id, nombre |-> nombre, entidad |-> entidad, ent_publica |-> ent_publica, es_contratista |-> es_contratista, conexiones |-> conexiones]

\* [people, aprobadores]; ent_publica is {} (None) or {b}
_from_v2_people(json_override) ==
  LET personas_raw == Get(json_override, "personas", <<>>)
      conv(p) == Persona(_safe_str(FirstTruthy(<<Get(p, "id", None), Get(p, "persona_id", None), Get(p, "nombre", None), "">>)),
                         _safe_str(FirstTruthy(<<Get(p, "nombre", None), Get(p, "id", None), "persona_sin_nombre">>)),
                         _safe_str(Get(p, "entidad", None)),
                         Get(p, "ent_publica", {}),
                         Get(p, "es_contratista", FALSE),
                         [k \in 1..Len(Get(p, "conexiones", <<>>)) |->
                            [con_id |-> _safe_str(Get(p.conexiones[k], "con_id", None)),
                             con_nombre |-> _safe_str(Get(p.conexiones[k], "con_nombre", None))]])
  IN [people |-> [i \in 1..Len(personas_raw) |-> conv(personas_raw[i])], aprobadores |-> Get(json_override, "aprobadores", <<>>)]

\* the legacy shape: connections are a map name -> {id}
_from_v1_people(json_override) ==
  LET people_raw == Get(json_override, "personas", <<>>)
      conv(p) ==
        LET nombre == _safe_str(FirstTruthy(<<Get(p, "Nombre", None), Get(p, "nombre", None)>>))
            pid == _safe_str(FirstTruthy(<<Get(p, "id", None), nombre, "">>))
            conn_map == IF Get(p, "conexion_directas", <<>>) # <<>> THEN p.conexion_directas ELSE Get(p, "conexiones", <<>>)
        IN Persona(FirstTruthy(<<pid, nombre, "">>),
                   FirstTruthy(<<nombre, pid, "persona_sin_nombre">>),
                   _safe_str(FirstTruthy(<<Get(p, "Entidad", None), Get(p, "entidad", None)>>)),
                   IF "Ent_publica" \in DOMAIN p THEN p.Ent_publica ELSE Get(p, "ent_publica", {}),
                   Get(p, "es_contratista", FALSE),
                   [k \in 1..Len(conn_map) |-> [con_id |-> _safe_str(Get(conn_map[k], "id", None)), con_nombre |-> _safe_str(Get(conn_map[k], "nombre", None))]])
  IN [i \in 1..Len(people_raw) |-> conv(people_raw[i])]

\* name_to_id.setdefault: the first person carrying the name wins
FirstIdByName(people, nm) ==
  LET K == {i \in 1..Len(people) : Truthy(people[i].nombre) /\ _norm_name(people[i].nombre) = nm}
  IN IF K = {} THEN None ELSE people[CHOOSE i \in K : \A j \in K : i <= j].id

\* a dict comprehension over the people: the last person carrying the name wins
LastIdByName(people, nm) ==
  LET K == {i \in 1..Len(people) : Truthy(people[i].nombre) /\ _norm_name(people[i].nombre) = nm}
  IN IF K = {} THEN None ELSE people[CHOOSE i \in K : \A j \in K : i >= j].id

\* the target a connection of build_graph resolves to (None when it does not)
ConnTarget(people, c) == IF Truthy(_safe_str(c.con_id)) THEN c.con_id ELSE FirstIdByName(people, _norm_name(c.con_nombre))

\* adj: node -> set of neighbours
build_graph(people) ==
  LET E == UNION {{<<people[i].id, ConnTarget(people, people[i].conexiones[k])>> : k \in 1..Len(people[i].conexiones)} : i \in 1..Len(people)}
      Ok == {e \in E : Truthy(e[2]) /\ e[2] # e[1]}
      nodes == {people[i].id : i \in 1..Len(people)} \cup {e[2] : e \in Ok}
  IN [n \in nodes |-> {m \in nodes : <<n, m>> \in Ok \/ <<m, n>> \in Ok}]

RECURSIVE Bfs(_, _, _, _, _, _)
\* the queue of shortest_path holds the nodes of one depth after the other: frontier
\* is the depth-d part.  A neighbour equal to dst ends the search; other unseen
\* neighbours are queued only when their depth is <= max_depth.
Bfs(adj, frontier, seen, dst, d, max_depth) ==
  LET nbs == UNION {adj[n] : n \in frontier} \ seen
  IN IF frontier = {} THEN {}
     ELSE IF dst \in nbs THEN {d + 1}
     ELSE IF d + 1 <= max_depth THEN Bfs(adj, nbs, seen \cup nbs, dst, d + 1, max_depth)
     ELSE {}

\* {} (None) or {number of edges of the path returned}
shortest_path(adj, src, dst, max_depth) ==
  IF src = dst \/ src \notin DOMAIN adj \/ dst \notin DOMAIN adj THEN {}
  ELSE Bfs(adj, {src}, {src}, dst, 0, max_depth)

RECURSIVE Dedupe(_)
\* list(dict.fromkeys(xs))
Dedupe(xs) == IF xs = <<>> THEN <<>> ELSE LET r == Dedupe(SubSeq(xs, 1, Len(xs) - 1)) IN IF xs[Len(xs)] \in Range(r) THEN r ELSE Append(r, xs[Len(xs)])

pick_official_ids(lic_entidad, people, aprobadores) ==
  LET lic_ent == _norm_name(lic_entidad)
      aps == SelectSeq(aprobadores, LAMBDA ap : _norm_name(Get(ap, "tipo_actor", None)) = "publico"
                                               /\ (~Truthy(lic_ent) \/ _norm_name(Get(ap, "entidad", None)) = lic_ent))
      ids == [k \in 1..Len(aps) |-> Or(_safe_str(Get(aps[k], "nombre", None)), "")]
      named == SelectSeq(ids, LAMBDA n : Truthy(_norm_name(n)) /\ Truthy(LastIdByName(people, _norm_name(n))))
      mapped == [k \in 1..Len(named) |-> LastIdByName(people, _norm_name(named[k]))]
      same_ent == SelectSeq(people, LAMBDA q : q.ent_publica = {TRUE} /\ Truthy(lic_ent) /\ _norm_name(q.entidad) = lic_ent)
  IN Dedupe(IF mapped # <<>> THEN mapped ELSE [k \in 1..Len(same_ent) |-> same_ent[k].id])

pick_contractor_ids(people, json_override) ==
  LET tagged == SelectSeq(people, LAMBDA q : q.es_contratista)
      first == [k \in 1..Len(tagged) |-> tagged[k].id]
      names == SelectSeq(Get(json_override, "contratistas", <<>>), LAMBDA n : Truthy(LastIdByName(people, _norm_name(n))))
      extra == [k \in 1..Len(names) |-> LastIdByName(people, _norm_name(names[k]))]
  IN Dedupe(first \o extra)

\* path is the number of edges of the path
score_path(path) == IF path + 1 = 2 THEN 30 ELSE 18

ensure_flag_exists(s, codigo, nombre, descripcion) ==
  LET u == UpsertFlag(s, codigo, nombre, descripcion)
  IN [s |-> IF u.raised THEN u.s ELSE commit(u.s), raised |-> u.raised]

\* the official-contractor pairs joined by a path of the graph, in pair order
ContactosMatches(adj, official_ids, contractor_ids) ==
  LET nc == Len(contractor_ids)
      pairs == [k \in 1..(Len(official_ids) * nc) |-> <<official_ids[((k - 1) \div nc) + 1], contractor_ids[((k - 1) % nc) + 1]>>]
      found == SelectSeq(pairs, LAMBDA pr : shortest_path(adj, pr[1], pr[2], 2) # {})
      hops(k) == CHOOSE n \in shortest_path(adj, found[k][1], found[k][2], 2) : TRUE
  IN [k \in 1..Len(found) |->
        [oficial_id |-> found[k][1], contratista_id |-> found[k][2], path_len |-> hops(k), score |-> score_path(hops(k))]]

\* `if s >= best_score`: the last match with the highest score
ContactosBest_last_wins(matches) ==
  IF matches = <<>> THEN {}
  ELSE {matches[CHOOSE k \in 1..Len(matches) :
                  /\ \A j \in 1..Len(matches) : matches[j].score <= matches[k].score
                  /\ \A j \in (k + 1)..Len(matches) : matches[j].score < matches[k].score]}

\* `if s > best_score`: the first match with the highest score; {} when there is none
ContactosBest(matches) ==
  IF matches = <<>> THEN {}
  ELSE {matches[CHOOSE k \in 1..Len(matches) :
                  /\ \A j \in 1..Len(matches) : matches[j].score <= matches[k].score
                  /\ \A j \in 1..(k - 1) : matches[j].score < matches[k].score]}

Degree(adj, oid) == IF oid \in DOMAIN adj THEN Cardinality(adj[oid]) ELSE 0

\* degs.sort(reverse=True) is stable: the first official of the highest degree
ContactosTop(adj, official_ids) ==
  IF official_ids = <<>> THEN <<None, 0>>
  ELSE LET k == CHOOSE i \in 1..Len(official_ids) :
                  /\ \A j \in 1..Len(official_ids) : Degree(adj, official_ids[j]) <= Degree(adj, official_ids[i])
                  /\ \A j \in 1..(i - 1) : Degree(adj, official_ids[j]) < Degree(adj, official_ids[i])
       IN <<official_ids[k], Degree(adj, official_ids[k])>>

\* by_id.get(id).nombre if by_id.get(id) else id; by_id keeps the last person of an id
NameOf(people, id) ==
  IF \E i \in 1..Len(people) : people[i].id = id
  THEN people[CHOOSE i \in 1..Len(people) : people[i].id = id /\ \A j \in (i + 1)..Len(people) : people[j].id # id].nombre
  ELSE id

ContactosComment(people, best, top, n) ==
  IF best # {}
  THEN "[red_contactos] Mejor coincidencia: " \o NameOf(people, (CHOOSE x \in best : TRUE).oficial_id) \o " - "
       \o NameOf(people, (CHOOSE x \in best : TRUE).contratista_id)
       \o " en " \o ToString((CHOOSE x \in best : TRUE).path_len) \o " salto(s). Total coincidencias: " \o ToString(n) \o "."
  ELSE IF Truthy(top[1]) /\ top[2] >= 5
  THEN "[red_contactos] Sin caminos <=2 saltos; oficial con conectividad alta: " \o NameOf(people, top[1]) \o " (grado=" \o ToString(top[2]) \o ")."
  ELSE "[red_contactos] No hay suficientes evidencias de conexion."

ContactosRaised(s) == [s |-> s, raised |-> TRUE, result |-> [ok |-> FALSE, detail |-> "raised"]]

\* what the run returns after its set_flag call w
ContactosReturn(w, lic_entidad, official_ids, contractor_ids, matches, apply_flag, comment) ==
  IF w.raised THEN ContactosRaised(w.s)
  ELSE [s |-> w.s, raised |-> FALSE,
        result |-> [ok |-> TRUE, flag_applied |-> apply_flag, comment |-> comment,
                    detail |-> [lic_entidad |-> lic_entidad, official_ids |-> official_ids,
                                contractor_ids |-> contractor_ids, matches |-> matches]]]

\* after ensure_flag_exists: f is its [s, raised]
ContactosEnsured(f, licitacion_id, official_ids, contractor_ids, matches, apply_flag, comment) ==
  IF f.raised THEN ContactosRaised(f.s)
  ELSE ContactosReturn(set_flag_for_licitacion(f.s, licitacion_id, FLAG_CODE_CONTACTOS, apply_flag, comment,
                                               "pipeline.redcontactos(json-v2)", "pipeline", {}),
                       licitacion[licitacion_id].entidad, official_ids, contractor_ids, matches, apply_flag, comment)

ContactosDecide(s, licitacion_id, people, official_ids, contractor_ids, matches, best, top) ==
  ContactosEnsured(ensure_flag_exists(s, FLAG_CODE_CONTACTOS, "Red de contactos", "Posible conflicto por red de contactos"),
                   licitacion_id, official_ids, contractor_ids, matches, best # {}, ContactosComment(people, best, top, Len(matches)))

ContactosSearch(s, licitacion_id, people, adj, official_ids, contractor_ids, matches) ==
  ContactosDecide(s, licitacion_id, people, official_ids, contractor_ids, matches, ContactosBest(matches), ContactosTop(adj, official_ids))

ContactosGraph(s, licitacion_id, people, adj, official_ids, contractor_ids) ==
  ContactosSearch(s, licitacion_id, people, adj, official_ids, contractor_ids, ContactosMatches(adj, official_ids, contractor_ids))

\* no early exit for an empty list of people: the flag is stored false
ContactosPeople_persists_empty(s, licitacion_id, json_override, people, aprobadores) ==
  ContactosGraph(s, licitacion_id, people, build_graph(people),
                 pick_official_ids(licitacion[licitacion_id].entidad, people, aprobadores),
                 pick_contractor_ids(people, json_override))

ContactosPeople(s, licitacion_id, json_override, people, aprobadores) ==
  IF people = <<>>
  THEN [s |-> s, raised |-> FALSE, result |-> [ok |-> TRUE, flag_applied |-> FALSE, detail |-> "Sin 'personas' validas"]]
  ELSE ContactosGraph(s, licitacion_id, people, build_graph(people),
                      pick_official_ids(licitacion[licitacion_id].entidad, people, aprobadores),
                      pick_contractor_ids(people, json_override))

\* the v2 shape when it yields people, else the legacy shape
ContactosParsed(s, licitacion_id, json_override, v2) ==
  IF v2.people # <<>> THEN ContactosPeople(s, licitacion_id, json_override, v2.people, v2.aprobadores)
  ELSE ContactosPeople(s, licitacion_id, json_override, _from_v1_people(json_override), Get(json_override, "aprobadores", <<>>))

\* [s, raised, result]
run_red_contactos(s, licitacion_id, json_override) ==
  IF licitacion_id \notin LicIds
  THEN [s |-> s, raised |-> FALSE, result |-> [ok |-> FALSE, detail |-> "Licitacion no existe"]]
  ELSE IF ~TruthyDict(json_override)
  THEN [s |-> s, raised |-> FALSE, result |-> [ok |-> TRUE, flag_applied |-> FALSE, detail |-> "JSON vacio"]]
  ELSE ContactosParsed(s, licitacion_id, json_override, _from_v2_people(json_override))

----------------------------------------------------------------------------
(* pipes/pipeline.py *)

\* both detector modules import
HAS_PRECIO == TRUE

HAS_GAP_FECHA == TRUE

get_computable_flows == (IF HAS_PRECIO THEN <<"red_precio">> ELSE <<>>) \o (IF HAS_GAP_FECHA THEN <<"gap_fechas">> ELSE <<>>)

get_interactive_flows == <<"red_contactos">>

\* the entries of _run_one_flow: [s, raised, entry] from a detector's return r
ContactosEntry(r) == [s |-> r.s, raised |-> r.raised, entry |-> [flow |-> "red_contactos", result |-> r.result]]

GapEntry(r) == [s |-> r.s, raised |-> r.raised, entry |-> [flow |-> "gap_fechas", result |-> r.result]]

\* flag_applied is recomputed from the returned FlagPrecioResult
PrecioApplied(res) ==
  /\ res.target_cuantia # {}
  /\ \/ 8 * (CHOOSE c \in res.target_cuantia : TRUE) < res.stats.lower
     \/ 8 * (CHOOSE c \in res.target_cuantia : TRUE) > res.stats.upper
     \/ AbsZAtLeast(res.stats.z_mad, Z_MAD_THRESHOLD)

PrecioEntry(r) ==
  [s |-> r.s, raised |-> r.raised,
   entry |-> [flow |-> "red_precio",
              result |-> [ok |-> TRUE, flag_applied |-> PrecioApplied(r.res),
                          detail |-> [method |-> r.res.method, n_comparables |-> r.res.n_comparables, median |-> r.res.stats.median,
                                      z_mad |-> r.res.stats.z_mad, lower |-> r.res.stats.lower, upper |-> r.res.stats.upper,
                                      neighbors |-> r.res.neighbor_ids]]]]

\* a name that is no other flow runs the price detector
_run_one_flow_default_precio(s, lic_id, flow, json_override) ==
  IF flow = "red_contactos"
  THEN IF ~TruthyDict(json_override)
       THEN [s |-> s, raised |-> FALSE, entry |-> [flow |-> "red_contactos", ok |-> FALSE, error |-> "json_required"]]
       ELSE ContactosEntry(run_red_contactos(s, lic_id, OrEmpty(json_override)))
  ELSE IF flow = "gap_fechas" /\ HAS_GAP_FECHA
  THEN GapEntry(run_flag_fecha_for_one(s, lic_id, OrEmpty(json_override)))
  ELSE PrecioEntry(run_flag_precio_for_one(s, lic_id))

\* [s, raised, entry]
_run_one_flow(s, lic_id, flow, json_override) ==
  IF flow = "red_contactos"
  THEN IF ~TruthyDict(json_override)
       THEN [s |-> s, raised |-> FALSE, entry |-> [flow |-> "red_contactos", ok |-> FALSE, error |-> "json_required"]]
       ELSE ContactosEntry(run_red_contactos(s, lic_id, OrEmpty(json_override)))
  ELSE IF flow = "red_precio" /\ HAS_PRECIO
  THEN PrecioEntry(run_flag_precio_for_one(s, lic_id))
  ELSE IF flow = "gap_fechas" /\ HAS_GAP_FECHA
  THEN GapEntry(run_flag_fecha_for_one(s, lic_id, OrEmpty(json_override)))
  ELSE [s |-> s, raised |-> TRUE, entry |-> [flow |-> flow, error |-> "Flow desconocido o no disponible"]]

RECURSIVE RunFlows(_, _, _, _, _)
RECURSIVE RunFlowsNext(_, _, _, _, _)
\* [_run_one_flow(db, licitacion_id, f, json_override) for f in flows]: the first
\* flow that raises ends the comprehension; [s, raised, applied]
RunFlows(s, licitacion_id, flows, json_override, applied) ==
  IF flows = <<>> THEN [s |-> s, raised |-> FALSE, applied |-> applied]
  ELSE RunFlowsNext(_run_one_flow(s, licitacion_id, Head(flows), json_override), licitacion_id, Tail(flows), json_override, applied)

\* the comprehension after the flow that returned r
RunFlowsNext(r, licitacion_id, flows, json_override, applied) ==
  IF r.raised THEN [s |-> r.s, raised |-> TRUE, applied |-> applied]
  ELSE RunFlows(r.s, licitacion_id, flows, json_override, Append(applied, r.entry))

\* db.commit() and the returned dict, when no flow raised
ForOneReturn(r, licitacion_id) ==
  IF r.raised THEN [s |-> r.s, raised |-> TRUE, value |-> [licitacion_id |-> licitacion_id, applied |-> <<>>]]
  ELSE [s |-> commit(r.s), raised |-> FALSE, value |-> [licitacion_id |-> licitacion_id, applied |-> r.applied]]

\* [s, raised, value]
run_flow_for_one(s, licitacion_id, flow, json_override) ==
  ForOneReturn(RunFlows(s, licitacion_id, IF flow = "all" THEN get_computable_flows ELSE <<flow>>, json_override, <<>>), licitacion_id)

\* the ids a WHERE clause selects; the clause is the one the callers below use
WhereMatches(where_clause, id) ==
  CASE where_clause = "estado = 'adjudicado'" -> licitacion[id].estado = "adjudicado"
    [] OTHER -> TRUE

RECURSIVE BatchLoop(_, _, _, _, _)
RECURSIVE BatchLoopNext(_, _, _, _, _)
\* for lid in lic_ids: out.append(run_flow_for_one(...)); an exception ends the loop
BatchLoop(s, lic_ids, ksflow, json_override, out) ==
  IF lic_ids = <<>> THEN [s |-> s, raised |-> FALSE, out |-> out]
  ELSE BatchLoopNext(run_flow_for_one(s, Head(lic_ids), ksflow, json_override), Tail(lic_ids), ksflow, json_override, out)

\* the loop after the run_flow_for_one that returned r
BatchLoopNext(r, lic_ids, ksflow, json_override, out) ==
  IF r.raised THEN [s |-> r.s, raised |-> TRUE, out |-> out]
  ELSE BatchLoop(r.s, lic_ids, ksflow, json_override, Append(out, r.value))

\* SELECT id FROM public.licitacion [WHERE ...] ORDER BY id [LIMIT n]; the LIMIT
\* is added `if limit:`; limit is {} (None) or {n}
DiscoverIds(where_clause, limit) ==
  LET matching == Ascending({i \in LicIds : Truthy(where_clause) => WhereMatches(where_clause, i)})
  IN IF limit # {} /\ limit # {0} THEN Take(matching, CHOOSE n \in limit : TRUE) ELSE matching

BatchRejected(s) == [s |-> s, raised |-> TRUE, discovered |-> FALSE, ids |-> <<>>, out |-> <<>>]

BatchReturn(r, discovered, ids) ==
  [s |-> r.s, raised |-> r.raised, discovered |-> discovered, ids |-> ids, out |-> IF r.raised THEN <<>> ELSE r.out]

\* the loop over the ids given or discovered
BatchRun(s, ksflow, discovered, ids, json_override) == BatchReturn(BatchLoop(s, ids, ksflow, json_override, <<>>), discovered, ids)

\* the contact flow is checked for its payload only
run_flow_batch_contactos_discovers(s, ksflow, lic_ids, where_clause, limit, json_override) ==
  IF ksflow # "all" /\ ksflow \notin Range(get_computable_flows) /\ ksflow # "red_contactos" THEN BatchRejected(s)
  ELSE IF ksflow = "red_contactos" /\ ~TruthyDict(json_override) THEN BatchRejected(s)
  ELSE IF lic_ids = {} /\ limit # {} /\ (CHOOSE n \in limit : TRUE) < 0 THEN BatchRejected(s)
  ELSE BatchRun(s, ksflow, lic_ids = {}, IF lic_ids # {} THEN CHOOSE l \in lic_ids : TRUE ELSE DiscoverIds(where_clause, limit), json_override)

\* lic_ids and limit are {} (None) or {value}; a negative LIMIT is an SQL error;
\* [s, raised, discovered, ids, out]
run_flow_batch(s, ksflow, lic_ids, where_clause, limit, json_override) ==
  IF ksflow # "all" /\ ksflow \notin Range(get_computable_flows) /\ ksflow # "red_contactos" THEN BatchRejected(s)
  ELSE IF ksflow = "red_contactos" /\ (~TruthyDict(json_override) \/ lic_ids \in {{}, {<<>>}}) THEN BatchRejected(s)
  ELSE IF lic_ids = {} /\ limit # {} /\ (CHOOSE n \in limit : TRUE) < 0 THEN BatchRejected(s)
  ELSE BatchRun(s, ksflow, lic_ids = {}, IF lic_ids # {} THEN CHOOSE l \in lic_ids : TRUE ELSE DiscoverIds(where_clause, limit), json_override)

----------------------------------------------------------------------------
(* Direct use of the flag store: one repo.set_flag_for_licitacion call in a *)
(* get_db session.                                                          *)

Session == NewSession(flags, flags_licitaciones, flags_log, clock)

\* the tables and the clock a finished session leaves behind
Leaves(s) ==
  /\ flags' = s.com.flags
  /\ flags_licitaciones' = s.com.fli
  /\ flags_log' = s.com.log
  /\ clock' = s.clock

\* the worker threads that serve two requests at a time
Threads == {1, 2}

Init ==
  /\ flags = <<>>
  /\ flags_licitaciones = <<>>
  /\ flags_log = <<>>
  /\ clock = 1
  /\ calls = <<>>
  /\ ret = [op |-> "init"]
  /\ penalty_global = PENALTY_ESTADO
  /\ threads = [t \in Threads |-> [pc |-> "idle"]]

SetFlagCall(lid, codigo, valor, txt, fecha) ==
  /\ clock <= MaxCalls
  /\ LET r == set_flag_for_licitacion(Session, lid, codigo, valor, txt[1], txt[2], "api", fecha)
         call == [licitacion_id |-> lid, flag_codigo |-> codigo, valor |-> valor, comentario |-> txt[1],
                  fuente |-> txt[2], fecha |-> IF fecha = {} THEN clock ELSE CHOOSE t \in fecha : TRUE]
     IN /\ Leaves(get_db(r.s, r.raised))
        /\ calls' = IF r.raised THEN calls ELSE Append(calls, call)
        /\ ret' = [op |-> "set_flag", call |-> call, raised |-> r.raised, fli |-> r.fli]
        /\ UNCHANGED <<penalty_global, threads>>

\* an existing and a missing tender; a detector's code and one set_flag creates
NextStore ==
  \E lid \in {1, 99}, codigo \in {"red_precio", "manual"}, valor \in BOOLEAN,
     txt \in {<<None, None>>, <<"revisado", "api">>}, fecha \in {{}, {0}} :
    SetFlagCall(lid, codigo, valor, txt, fecha)

SpecStore == Init /\ [][NextStore]_vars

----------------------------------------------------------------------------
(* The orchestrator called through a get_db session *)

\* one official of the tender's institution with a direct link to a contractor
PayloadContactos ==
  [personas |-> << [id |-> "p1", nombre |-> "Ana", entidad |-> "ALCALDIA", ent_publica |-> {TRUE},
                    conexiones |-> << [con_nombre |-> "beto"] >>],
                   [id |-> "p2", nombre |-> "Beto", entidad |-> "Obras SA", es_contratista |-> TRUE] >>]

Payloads == {NoDict, EmptyDict, PayloadContactos}

\* the computable flows take no payload
PayloadsFor(flow) == IF flow \in Range(get_computable_flows) \/ flow = "all" THEN {NoDict} ELSE Payloads

Flows == {"red_precio", "gap_fechas", "red_contactos", "all", "red_social"}

\* a flagged, a value-less, an embedding-less, a lone, a sparse and a missing tender
RunIds == {1, 2, 3, 20, 21, 99}

Selection(lic_ids, where_clause, limit) == [lic_ids |-> lic_ids, where_clause |-> where_clause, limit |-> limit]

\* what a batch request selects: an id list (empty, with a missing tender, all
\* present), or a discovery with or without filter and limit
Selections ==
  {Selection({<<>>}, None, {}), Selection({<<3, 99, 21>>}, None, {}), Selection({<<20, 3>>}, None, {}),
   Selection({}, None, {}), Selection({}, None, {1}),
   Selection({}, "estado = 'adjudicado'", {0}), Selection({}, "estado = 'adjudicado'", {3}),
   Selection({}, "estado = 'adjudicado'", {7})}

RunForOne(lid, flow, payload) ==
  /\ clock <= MaxTicks
  /\ \E r \in {run_flow_for_one(Session, lid, flow, payload)} :
       /\ Leaves(get_db(r.s, r.raised))
       /\ ret' = [op |-> "run_for_one", licitacion_id |-> lid, flow |-> flow, json_override |-> payload,
                  raised |-> r.raised, value |-> r.value]
       /\ UNCHANGED <<calls, penalty_global, threads>>

RunBatch(flow, sel, payload) ==
  /\ clock <= MaxBatchTicks
  /\ \E r \in {run_flow_batch(Session, flow, sel.lic_ids, sel.where_clause, sel.limit, payload)} :
       /\ Leaves(get_db(r.s, r.raised))
       /\ ret' = [op |-> "run_batch", flow |-> flow, lic_ids |-> sel.lic_ids, where_clause |-> sel.where_clause,
                  limit |-> sel.limit, json_override |-> payload, raised |-> r.raised, discovered |-> r.discovered,
                  ids |-> r.ids, out |-> r.out]
       /\ UNCHANGED <<calls, penalty_global, threads>>

Next ==
  \/ \E lid \in RunIds, flow \in Flows : \E payload \in PayloadsFor(flow) : RunForOne(lid, flow, payload)
  \/ \E flow \in Flows, sel \in Selections : \E payload \in PayloadsFor(flow) : RunBatch(flow, sel, payload)

Spec == Init /\ [][Next]_vars

----------------------------------------------------------------------------
(* The detectors' computations called on their own, one call in a behaviour: *)
(* they read no table, so the call is made on the initial state.              *)

\* steps 4 and 5 of run_flag_precio_for_one for the neighbours' values and a target value
StatsCall(values, target) ==
  /\ ret.op = "init"
  /\ ret' = [op |-> "precio_stats", values |-> values, target |-> target,
             out |-> PrecioStats(0, {target}, [k \in 1..Len(values) |-> [id |-> k, cuantia |-> {values[k]}]], MIN_NEIGHBORS_FOR_STATS)]
  /\ UNCHANGED <<flags, flags_licitaciones, flags_log, clock, calls, penalty_global, threads>>

\* _business_days on two optional timestamps, in both argument orders
BusinessDaysCall(d1, d2, holidays) ==
  /\ ret.op = "init"
  /\ ret' = [op |-> "business_days", d1 |-> d1, d2 |-> d2, holidays |-> holidays,
             days |-> _business_days(d1, d2, holidays), swapped |-> _business_days(d2, d1, holidays)]
  /\ UNCHANGED <<flags, flags_licitaciones, flags_log, clock, calls, penalty_global, threads>>

\* shortest_path with the default max_depth on the undirected graph of a set of edges
ShortestPathCall(nodes, edges, src, dst) ==
  /\ ret.op = "init"
  /\ ret' = [op |-> "shortest_path", adj |-> [n \in nodes |-> {m \in nodes : {n, m} \in edges}], src |-> src, dst |-> dst,
             path |-> shortest_path([n \in nodes |-> {m \in nodes : {n, m} \in edges}], src, dst, 2)]
  /\ UNCHANGED <<flags, flags_licitaciones, flags_log, clock, calls, penalty_global, threads>>

\* the pooling of _fetch_target_docvec on the rows its query returned
DocVecCall(vs) ==
  /\ ret.op = "init"
  /\ ret' = [op |-> "docvec", rows |-> [k \in 1..Len(vs) |-> Chunk(k, 1, vs[k])],
             out |-> DocVec([k \in 1..Len(vs) |-> Chunk(k, 1, vs[k])])]
  /\ UNCHANGED <<flags, flags_licitaciones, flags_log, clock, calls, penalty_global, threads>>

\* build_graph and pick_contractor_ids on the people of a v2 payload
BuildGraphCall(json_override) ==
  /\ ret.op = "init"
  /\ ret' = [op |-> "build_graph", json_override |-> json_override, people |-> _from_v2_people(json_override).people,
             adj |-> build_graph(_from_v2_people(json_override).people),
             contractor_ids |-> pick_contractor_ids(_from_v2_people(json_override).people, json_override)]
  /\ UNCHANGED <<flags, flags_licitaciones, flags_log, clock, calls, penalty_global, threads>>

NextPure ==
  \/ \E values \in {[i \in 1..10 |-> IF i = 10 THEN 1000000 ELSE 100], [i \in 1..10 |-> IF i = 1 THEN 1000000 ELSE 100],
                     [i \in 1..10 |-> 100], [i \in 1..10 |-> 10 * i], [i \in 1..11 |-> 7 * i * i], [i \in 1..9 |-> 100]},
          target \in {0, 55, 100, 101, 400, 1000000} : StatsCall(values, target)
  \/ \E d1, d2 \in {{}} \cup {{Ts(d, m)} : d \in 0..8, m \in {0, 600}}, holidays \in {{}, {1}, {1, 2}, {5}, {0, 7}} :
       BusinessDaysCall(d1, d2, holidays)
  \/ \E edges \in SUBSET {{"A", "B"}, {"A", "C"}, {"A", "D"}, {"B", "C"}, {"B", "D"}, {"C", "D"}}, src, dst \in {"A", "B", "C", "D", "Z"} :
       ShortestPathCall({"A", "B", "C", "D"}, edges, src, dst)
  \/ \E src, dst \in {"A", "C", "D", "E"} :
       ShortestPathCall({"A", "B", "C", "D", "E"}, {{"A", "B"}, {"B", "C"}, {"C", "D"}, {"D", "E"}}, src, dst)
  \/ \E n \in 1..3 :
       \E vs \in [1..n -> {{Vec(<<1, 0>>)}, {Vec(<<0, 2>>)}, {Vec(<<0, 0>>)}, {NonFinite(<<1, 0>>)}, {Vec(<<>>)}, {Vec(<<1, 0, 0>>)}}] :
         DocVecCall(vs)
  \/ \E c1, c2 \in {<<>>, << [con_id |-> "p1"] >>, << [con_id |-> "p2"] >>, << [con_nombre |-> "ana"] >>, << [con_nombre |-> "Beto"] >>,
                     << [con_id |-> "x9"] >>, << [con_nombre |-> "zed"] >>, << [con_id |-> "p3", con_nombre |-> "beto"] >>,
                     << [con_nombre |-> "ANA"], [con_id |-> "p3"] >>},
          contratistas \in {<<>>, <<"Ana">>, <<"beto", "ana">>, <<"zed">>} :
       BuildGraphCall([personas |-> << Persona("p1", "Ana", "Alcaldia", {TRUE}, FALSE, c1),
                                       Persona("p2", "Beto", "Obras SA", {}, FALSE, c2),
                                       Persona("p3", "ANA", None, {}, TRUE, <<>>) >>,
                       contratistas |-> contratistas])

SpecPure == Init /\ [][NextPure]_vars

----------------------------------------------------------------------------
(* The date-gap flow run with its payloads, and the contact detector called *)
(* with every kind of payload, the empty ones included.                     *)

\* run_red_contactos called in a get_db session
RunContactos(lid, payload) ==
  /\ clock <= MaxTicks
  /\ \E r \in {run_red_contactos(Session, lid, payload)} :
       /\ Leaves(get_db(r.s, r.raised))
       /\ ret' = [op |-> "red_contactos", licitacion_id |-> lid, json_override |-> payload, raised |-> r.raised, result |-> r.result]
       /\ UNCHANGED <<calls, penalty_global, threads>>

\* holidays are day numbers; the payloads without people are the empty ones, a
\* list of no people, and a contractor list alone; the people of the other
\* payloads are written with the keys of the v2 shape
NextDetect ==
  \/ \E lid \in {1, 2, 3, 5, 20, 99},
         payload \in {NoDict, EmptyDict, [threshold |-> 7], [holidays |-> {1, 2}], [threshold |-> 0, holidays |-> {2}]} :
       RunForOne(lid, "gap_fechas", payload)
  \/ \E lid \in {1, 10, 99},
         payload \in {NoDict, EmptyDict, PayloadContactos, [personas |-> <<>>], [contratistas |-> <<"Beto">>],
                      [personas |-> << [id |-> "p1", nombre |-> "Ana", entidad |-> "Gobernacion", ent_publica |-> {TRUE}] >>]} :
       RunContactos(lid, payload)
  \/ \E lid \in {1, 10},
         payload \in
           {\* Ana - Caro - Beto: two hops
            [personas |-> << Persona("p1", "Ana", "Alcaldia", {TRUE}, FALSE, << [con_id |-> "p3"] >>),
                             Persona("p2", "Beto", "Obras SA", {}, TRUE, <<>>),
                             Persona("p3", "Caro", None, {}, FALSE, << [con_id |-> "p2"] >>) >>],
            \* Ana - Caro - Dani - Beto: three hops
            [personas |-> << Persona("p1", "Ana", "Alcaldia", {TRUE}, FALSE, << [con_id |-> "p3"] >>),
                             Persona("p2", "Beto", "Obras SA", {}, TRUE, <<>>),
                             Persona("p3", "Caro", None, {}, FALSE, << [con_id |-> "p4"] >>),
                             Persona("p4", "Dani", None, {}, FALSE, << [con_id |-> "p2"] >>) >>],
            \* an official and a contractor with no connection
            [personas |-> << Persona("p1", "Ana", "Alcaldia", {TRUE}, FALSE, <<>>),
                             Persona("p2", "Beto", "Obras SA", {}, TRUE, <<>>) >>],
            \* an official with five connections, none of them towards the contractor
            [personas |-> << Persona("p1", "Ana", "Alcaldia", {TRUE}, FALSE,
                                     << [con_id |-> "x1"], [con_id |-> "x2"], [con_id |-> "x3"], [con_id |-> "x4"], [con_id |-> "x5"] >>),
                             Persona("p2", "Beto", "Obras SA", {}, TRUE, <<>>) >>],
            \* two officials and two contractors around Caro: four matches, two of them direct
            [personas |-> << Persona("p1", "Ana", "Alcaldia", {TRUE}, FALSE, << [con_id |-> "p3"] >>),
                             Persona("p2", "Beto", "Obras SA", {}, TRUE, << [con_id |-> "p3"] >>),
                             Persona("p3", "Caro", "Obras SA", {}, TRUE, <<>>),
                             Persona("p4", "Dani", "Alcaldia", {TRUE}, FALSE, << [con_id |-> "p3"] >>) >>]} :
       RunContactos(lid, payload)

SpecDetect == Init /\ [][NextDetect]_vars

----------------------------------------------------------------------------
(* Two requests to POST /flags/{licitacion_id} served at the same time, each *)
(* in a worker thread with its own get_db session, for the same tender and  *)
(* flag code.  A step is one SQL statement of set_flag_for_licitacion; a    *)
(* statement sees the rows committed before it (READ COMMITTED) and its own *)
(* session's rows.  An INSERT of a key another open transaction has         *)
(* inserted waits for that transaction to end; an INSERT of a committed key *)
(* violates the unique constraint (uq_flags_codigo,                         *)
(* uq_flags_licitacion_flag) and the request fails and is rolled back.      *)

\* the assignment rows of one tender and flag code in a pair of tables
RowsOf(fs, rows, lid, codigo) ==
  {i \in 1..Len(rows) : rows[i].licitacion_id = lid /\ \E f \in Range(fs) : f.id = rows[i].flag_id /\ f.codigo = codigo}

\* the thread holds a row it has inserted and not yet committed
Open(u) == threads[u].pc \in {"flag_ready", "fli_selected", "written"}

\* fecha = datetime.now(), then ensure_flag_by_codigo's SELECT on flags
SelectFlag(t, lid, codigo, valor) ==
  /\ threads[t].pc = "idle"
  /\ threads' = [threads EXCEPT ![t] = [pc |-> "flag_selected", licitacion_id |-> lid, flag_codigo |-> codigo, valor |-> valor,
                                         comentario |-> None, fuente |-> None, fecha |-> clock,
                                         saw_flag |-> \E k \in 1..Len(flags) : flags[k].codigo = codigo,
                                         new_flag |-> FALSE, found |-> {}, new_fli |-> FALSE]]
  /\ clock' = clock + 1
  /\ UNCHANGED <<flags, flags_licitaciones, flags_log, calls, ret, penalty_global>>

\* ensure_flag_by_codigo: session.add(flag), session.flush() when the SELECT found none
EnsureFlag(t) ==
  /\ threads[t].pc = "flag_selected"
  /\ \/ /\ threads[t].saw_flag
        /\ threads' = [threads EXCEPT ![t].pc = "flag_ready"]
     \/ /\ ~threads[t].saw_flag
        /\ \E k \in 1..Len(flags) : flags[k].codigo = threads[t].flag_codigo
        /\ threads' = [threads EXCEPT ![t].pc = "failed"]
     \/ /\ ~threads[t].saw_flag
        /\ \A k \in 1..Len(flags) : flags[k].codigo # threads[t].flag_codigo
        /\ \A u \in Threads \ {t} : ~(Open(u) /\ threads[u].new_flag /\ threads[u].flag_codigo = threads[t].flag_codigo)
        /\ threads' = [threads EXCEPT ![t].pc = "flag_ready", ![t].new_flag = TRUE]
  /\ UNCHANGED <<flags, flags_licitaciones, flags_log, clock, calls, ret, penalty_global>>

\* the SELECT on flags_licitaciones for (licitacion_id, flag.id)
SelectFli(t) ==
  /\ threads[t].pc = "flag_ready"
  /\ threads' = [threads EXCEPT ![t].pc = "fli_selected",
                                 ![t].found = IF threads[t].new_flag THEN {}
                                              ELSE {flags_licitaciones[i].id : i \in RowsOf(flags, flags_licitaciones, threads[t].licitacion_id, threads[t].flag_codigo)}]
  /\ UNCHANGED <<flags, flags_licitaciones, flags_log, clock, calls, ret, penalty_global>>

\* the insert branch (session.add(fli), session.flush()) or the update branch
\* (attributes set in the session), then session.add(log)
WriteFli(t) ==
  /\ threads[t].pc = "fli_selected"
  /\ \/ /\ threads[t].found # {}
        /\ threads' = [threads EXCEPT ![t].pc = "written"]
     \/ /\ threads[t].found = {}
        /\ RowsOf(flags, flags_licitaciones, threads[t].licitacion_id, threads[t].flag_codigo) # {}
        /\ threads' = [threads EXCEPT ![t].pc = "failed"]
     \/ /\ threads[t].found = {}
        /\ RowsOf(flags, flags_licitaciones, threads[t].licitacion_id, threads[t].flag_codigo) = {}
        /\ \A u \in Threads \ {t} : ~(Open(u) /\ threads[u].new_fli /\ threads[u].licitacion_id = threads[t].licitacion_id
                                        /\ threads[u].flag_codigo = threads[t].flag_codigo)
        /\ threads' = [threads EXCEPT ![t].pc = "written", ![t].new_fli = TRUE]
  /\ UNCHANGED <<flags, flags_licitaciones, flags_log, clock, calls, ret, penalty_global>>

\* db.commit(): the pending UPDATE and the log row are flushed and the
\* transaction's rows become visible
CommitTx(t) ==
  /\ threads[t].pc = "written"
  /\ LET th == threads[t]
         fs == IF th.new_flag THEN Append(flags, [id |-> NextId(flags), codigo |-> th.flag_codigo, nombre |-> th.flag_codigo, descripcion |-> None])
               ELSE flags
         flag_id == (CHOOSE f \in Range(fs) : f.codigo = th.flag_codigo).id
         fid == IF th.new_fli THEN NextId(flags_licitaciones) ELSE CHOOSE x \in th.found : TRUE
     IN /\ flags' = fs
        /\ flags_licitaciones' =
             IF th.new_fli
             THEN Append(flags_licitaciones, [id |-> fid, licitacion_id |-> th.licitacion_id, flag_id |-> flag_id, valor |-> th.valor,
                                              fecha_detectado |-> th.fecha, comentario |-> th.comentario, fuente |-> th.fuente])
             ELSE [i \in 1..Len(flags_licitaciones) |->
                     IF flags_licitaciones[i].id = fid
                     THEN [flags_licitaciones[i] EXCEPT !.valor = th.valor, !.fecha_detectado = th.fecha,
                                                        !.comentario = th.comentario, !.fuente = th.fuente]
                     ELSE flags_licitaciones[i]]
        /\ flags_log' = Append(flags_log, FlagsLog(fid, th.valor, th.comentario, th.fuente, th.fecha, "api"))
        /\ calls' = Append(calls, [licitacion_id |-> th.licitacion_id, flag_codigo |-> th.flag_codigo, valor |-> th.valor,
                                    comentario |-> th.comentario, fuente |-> th.fuente, fecha |-> th.fecha])
        /\ ret' = [op |-> "commit", thread |-> t, fli |-> fid]
  /\ threads' = [threads EXCEPT ![t].pc = "done"]
  /\ UNCHANGED <<clock, penalty_global>>

\* requests served one after the other fill the store; then the two threads
\* serve one request each for tender 1 and the code red_precio
NextRace ==
  \/ /\ \A t \in Threads : threads[t].pc = "idle"
     /\ \E lid \in {1, 2}, valor \in BOOLEAN : SetFlagCall(lid, "red_precio", valor, <<None, None>>, {})
  \/ \E t \in Threads, valor \in BOOLEAN : SelectFlag(t, 1, "red_precio", valor)
  \/ \E t \in Threads : EnsureFlag(t)
  \/ \E t \in Threads : SelectFli(t)
  \/ \E t \in Threads : WriteFli(t)
  \/ \E t \in Threads : CommitTx(t)

SpecRace == Init /\ [][NextRace]_vars

----------------------------------------------------------------------------
(* Two run_flag_precio_for_one calls made at the same time, each in a worker *)
(* thread with its own penalty_estado, for two tenders that have a document *)
(* vector and candidates.  The assignment `PENALTY_ESTADO = penalty_estado` *)
(* writes the module global; every _penalty call of the scoring loop reads  *)
(* it.  The tables the loop reads are never written, so a thread's steps    *)
(* are its entry up to the loop, one step per candidate, and the rest of    *)
(* the call.                                                                 *)

\* lines 263-293: the global is assigned, the definition ensured, the target and
\* the candidates fetched
EnterPrecio(t, lid, penalty_estado) ==
  /\ threads[t].pc = "idle"
  /\ lid \in LicIds
  /\ _fetch_target_docvec(lid).vec # {}
  /\ ~_fetch_candidate_chunks_docvecs(_fetch_candidate_headers(lid, _fetch_target_meta(lid))).raised
  /\ penalty_global' = penalty_estado
  /\ Leaves(_ensure_flag(Session).s)
  /\ threads' = [threads EXCEPT ![t] =
                   [pc |-> "scoring", licitacion_id |-> lid, penalty_estado |-> penalty_estado,
                    t_vec |-> CHOOSE v \in _fetch_target_docvec(lid).vec : TRUE,
                    t_meta |-> _fetch_target_meta(lid),
                    vecs |-> _fetch_candidate_chunks_docvecs(_fetch_candidate_headers(lid, _fetch_target_meta(lid))).vecs,
                    with_vec |-> SelectSeq(_fetch_candidate_headers(lid, _fetch_target_meta(lid)),
                                           LAMBDA c : c \in DOMAIN _fetch_candidate_chunks_docvecs(_fetch_candidate_headers(lid, _fetch_target_meta(lid))).vecs),
                    scored |-> <<>>]]
  /\ UNCHANGED <<calls, ret>>

\* lines 297-305: one pass of the loop, for the next candidate with a document vector
ScoreNext(t) ==
  /\ threads[t].pc = "scoring"
  /\ Len(threads[t].scored) < Len(threads[t].with_vec)
  /\ \E c \in {threads[t].with_vec[Len(threads[t].scored) + 1]} :
       threads' = [threads EXCEPT ![t].scored =
                     Append(@, [id |-> c,
                                score |-> _cosine_distance(threads[t].t_vec, threads[t].vecs[c])
                                          + _penalty(threads[t].t_meta, licitacion[c], penalty_global),
                                cuantia |-> licitacion[c].cuantia])]
  /\ UNCHANGED <<flags, flags_licitaciones, flags_log, clock, calls, ret, penalty_global>>

\* lines 307-392: ranking, statistics, verdict, the set_flag call, and the commit
\* of the request
FinishPrecio(t) ==
  /\ threads[t].pc = "scoring"
  /\ Len(threads[t].scored) = Len(threads[t].with_vec)
  /\ \E r \in {PrecioPersist(Session, threads[t].licitacion_id,
                              PrecioRank(threads[t].licitacion_id, threads[t].t_meta.cuantia, threads[t].scored, TOP_K, MIN_NEIGHBORS_FOR_STATS))} :
       /\ Leaves(get_db(r.s, r.raised))
       /\ ret' = [op |-> "precio_thread", thread |-> t, licitacion_id |-> threads[t].licitacion_id, raised |-> r.raised, res |-> r.res]
  /\ threads' = [threads EXCEPT ![t].pc = "done"]
  /\ UNCHANGED <<calls, penalty_global>>

\* thread 1 evaluates tender 1 and thread 2 tender 10, each with a weight of
\* 0, 0.10 or 0.25
NextPenalty ==
  \/ \E t \in Threads, penalty_estado \in {0, 100, 250} : EnterPrecio(t, <<1, 10>>[t], penalty_estado)
  \/ \E t \in Threads : ScoreNext(t)
  \/ \E t \in Threads : FinishPrecio(t)

SpecPenalty == Init /\ [][NextPenalty]_vars

----------------------------------------------------------------------------
(* Properties of the flag store *)

CodigoOf(fid) == (CHOOSE f \in Range(flags) : f.id = fid).codigo

CallsFor(lid, codigo) == {k \in 1..Len(calls) : calls[k].licitacion_id = lid /\ calls[k].flag_codigo = codigo}

\* C1: after any sequence of set_flag calls the assignment table holds at most one
\* row per (entity id, flag code), and that row carries the value, comment, source
\* and timestamp of the most recent set_flag call for the pair.
C1_OneRowLatestCall ==
  /\ \A i, j \in 1..Len(flags_licitaciones) :
       (/\ flags_licitaciones[i].licitacion_id = flags_licitaciones[j].licitacion_id
        /\ CodigoOf(flags_licitaciones[i].flag_id) = CodigoOf(flags_licitaciones[j].flag_id)) => i = j
  /\ \A k \in 1..Len(calls) :
       \E i \in 1..Len(flags_licitaciones) :
         /\ flags_licitaciones[i].licitacion_id = calls[k].licitacion_id
         /\ CodigoOf(flags_licitaciones[i].flag_id) = calls[k].flag_codigo
  /\ \A i \in 1..Len(flags_licitaciones) :
       LET row == flags_licitaciones[i]
           K == CallsFor(row.licitacion_id, CodigoOf(row.flag_id))
       IN /\ K # {}
          /\ LET c == calls[SetMax(K)]
             IN /\ row.valor = c.valor
                /\ row.comentario = c.comentario
                /\ row.fuente = c.fuente
                /\ row.fecha_detectado = c.fecha

\* a pair written twice with different value, texts and timestamp, beside another pair
C1_Witness ==
  /\ Len(flags_licitaciones) = 2
  /\ \E k1, k2 \in 1..Len(calls) :
       /\ k1 < k2
       /\ calls[k1].licitacion_id = calls[k2].licitacion_id
       /\ calls[k1].flag_codigo = calls[k2].flag_codigo
       /\ calls[k1].valor # calls[k2].valor
       /\ calls[k1].comentario # calls[k2].comentario
       /\ calls[k1].fecha # calls[k2].fecha

\* C2: every set_flag call appends exactly one log entry that references the
\* assignment of its (entity, flag) pair, also when the value is unchanged; no
\* existing log entry is modified or removed.
C2_LogAppendOnly ==
  [][/\ Len(flags_log') >= Len(flags_log)
     /\ SubSeq(flags_log', 1, Len(flags_log)) = flags_log
     /\ (ret'.op = "set_flag" /\ ~ret'.raised) =>
          /\ Len(flags_log') = Len(flags_log) + 1
          /\ \E i \in 1..Len(flags_licitaciones') :
               /\ flags_licitaciones'[i].id = flags_log'[Len(flags_log')].flags_licitaciones_id
               /\ flags_licitaciones'[i].licitacion_id = ret'.call.licitacion_id
               /\ \E f \in Range(flags') : f.id = flags_licitaciones'[i].flag_id /\ f.codigo = ret'.call.flag_codigo]_vars

\* two identical calls in a row: one assignment row, two log rows
C2_Witness ==
  /\ Len(calls) = 2
  /\ calls[1] = calls[2]
  /\ Len(flags_licitaciones) = 1
  /\ Len(flags_log) = 2

----------------------------------------------------------------------------
(* Properties of the orchestrator *)

StoreUnchanged == UNCHANGED <<flags, flags_licitaciones, flags_log>>

Computable == Range(get_computable_flows)

\* C3: run_for_one with flow "all" returns one entry per computable flow, in the
\* declared order, whatever the outcome of each flow: a flow that fails is
\* recorded in its own entry and does not make the call fail.
C3_AllReportsEveryFlow ==
  (ret.op = "run_for_one" /\ ret.flow = "all") =>
    /\ ~ret.raised
    /\ Len(ret.value.applied) = Len(get_computable_flows)
    /\ \A i \in 1..Len(get_computable_flows) : ret.value.applied[i].flow = get_computable_flows[i]

\* C4: run_batch over an id list of length n returns n per-entity results in the
\* order of the ids, also when run_for_one fails for one of them.
C4_BatchReportsEveryId ==
  (ret.op = "run_batch" /\ ret.lic_ids # {} /\ ret.flow \in Computable \cup {"all"}) =>
    /\ ~ret.raised
    /\ Len(ret.out) = Len(ret.ids)
    /\ \A i \in 1..Len(ret.ids) : ret.out[i].licitacion_id = ret.ids[i]

\* C5: run_for_one of the contact-network flow with a missing or empty payload
\* does not raise, returns the single entry ok=false with the payload-required
\* error, and leaves definitions, assignments and log as they were.
C5_NoPayloadNoWrite ==
  [][(ret'.op = "run_for_one" /\ ret'.flow = "red_contactos" /\ ret'.json_override \in {NoDict, EmptyDict}) =>
       /\ ~ret'.raised
       /\ ret'.value.applied = << [flow |-> "red_contactos", ok |-> FALSE, error |-> "json_required"] >>
       /\ StoreUnchanged]_vars

\* an empty payload for an existing tender, on a store that already holds a flag
C5_Witness ==
  /\ ret.op = "run_for_one"
  /\ ret.flow = "red_contactos"
  /\ ret.json_override = EmptyDict
  /\ ret.licitacion_id \in LicIds
  /\ ~ret.raised
  /\ Len(ret.value.applied) = 1
  /\ ~ret.value.applied[1].ok
  /\ flags_log # <<>>

\* C6: a flow name that is neither computable, interactive nor "all" makes
\* run_for_one and run_batch raise with definitions, assignments and log
\* unchanged, for every entity id, selection and payload.
C6_UnknownFlowRejected ==
  [][(/\ ret'.op \in {"run_for_one", "run_batch"}
      /\ ret'.flow \notin Computable \cup Range(get_interactive_flows) \cup {"all"}) =>
       /\ ret'.raised
       /\ StoreUnchanged]_vars

\* an unknown flow asked for an existing tender, with a payload, on a non-empty store
C6_Witness ==
  /\ ret.op = "run_for_one"
  /\ ret.flow = "red_social"
  /\ ret.licitacion_id = 1
  /\ ret.json_override = PayloadContactos
  /\ ret.raised
  /\ flags_licitaciones # <<>>

\* C7: run_batch discovers ids only for a computable flow or "all"; with the
\* contact-network flow it never discovers, and without a payload or without
\* a non-empty id list it raises and leaves the store unchanged.
C7_NoDiscoveryForInteractive ==
  [][ret'.op = "run_batch" =>
       /\ ret'.discovered => ret'.flow \in Computable \cup {"all"}
       /\ ret'.flow \in Range(get_interactive_flows) =>
            /\ ~ret'.discovered
            /\ (~TruthyDict(ret'.json_override) \/ ret'.lic_ids \in {{}, {<<>>}}) => (ret'.raised /\ StoreUnchanged)
            /\ ~StoreUnchanged => (TruthyDict(ret'.json_override) /\ ret'.lic_ids \notin {{}, {<<>>}})]_vars

\* the contact-network flow run over an explicit list with a payload: one result
\* and one assignment per listed tender
C7_Witness ==
  /\ ret.op = "run_batch"
  /\ ret.flow = "red_contactos"
  /\ ret.lic_ids = {<<20, 3>>}
  /\ ret.json_override = PayloadContactos
  /\ ~ret.raised
  /\ ~ret.discovered
  /\ Len(ret.out) = 2
  /\ RowsOf(flags, flags_licitaciones, 20, FLAG_CODE_CONTACTOS) # {}
  /\ RowsOf(flags, flags_licitaciones, 3, FLAG_CODE_CONTACTOS) # {}

\* C8: without an id list and with a limit n, run_batch processes the min(n,
\* number of matching tenders) lowest matching ids in ascending order and
\* returns no more than n results.
C8_LimitCapsDiscovery ==
  (ret.op = "run_batch" /\ ret.lic_ids = {} /\ ret.limit # {} /\ ret.flow \in Computable \cup {"all"}) =>
    LET n == CHOOSE x \in ret.limit : TRUE
        matching == Ascending({i \in LicIds : Truthy(ret.where_clause) => WhereMatches(ret.where_clause, i)})
    IN /\ ret.ids = Take(matching, Min2(n, Len(matching)))
       /\ Len(ret.out) <= n

\* C9: a price-detector run that completes for an existing tender appends one
\* log entry, for the one red_precio assignment of that tender, and touches no
\* other assignment; a completed red_precio batch does so once per id.
C9_OneWritePerInvocation ==
  [][/\ (ret'.op = "run_for_one" /\ ret'.flow = "red_precio" /\ ret'.licitacion_id \in LicIds /\ ~ret'.raised) =>
          LET mine == RowsOf(flags', flags_licitaciones', ret'.licitacion_id, "red_precio")
          IN /\ Len(flags_log') = Len(flags_log) + 1
             /\ SubSeq(flags_log', 1, Len(flags_log)) = flags_log
             /\ Cardinality(mine) = 1
             /\ \A i \in mine : flags_licitaciones'[i].id = flags_log'[Len(flags_log')].flags_licitaciones_id
             /\ \A i \in 1..Len(flags_licitaciones) : i \notin mine => flags_licitaciones'[i] = flags_licitaciones[i]
             /\ Len(flags_licitaciones') = Len(flags_licitaciones) + (IF RowsOf(flags, flags_licitaciones, ret'.licitacion_id, "red_precio") = {} THEN 1 ELSE 0)
     /\ (ret'.op = "run_batch" /\ ret'.flow = "red_precio" /\ ~ret'.raised /\ Range(ret'.ids) \subseteq LicIds) =>
          /\ Len(flags_log') = Len(flags_log) + Len(ret'.ids)
          /\ \A k \in 1..Len(ret'.ids) :
               \E i \in RowsOf(flags', flags_licitaciones', ret'.ids[k], "red_precio") :
                 flags_licitaciones'[i].id = flags_log'[Len(flags_log) + k].flags_licitaciones_id]_vars

\* a completed batch over tenders of all five paths, one log entry each
C9_Witness ==
  /\ ret.op = "run_batch"
  /\ ret.flow = "red_precio"
  /\ ~ret.raised
  /\ \A p \in {"no_embedding", "no_candidates", "too_few", "no_value", "evaluated"} :
       \E k \in 1..Len(ret.ids) : PrecioDefault[ret.ids[k]].path = p /\ RowsOf(flags, flags_licitaciones, ret.ids[k], "red_precio") # {}
  /\ Len(flags_log) = Len(ret.ids)

\* the price detector run a second time for one tender: the assignment is rewritten
C9_WitnessRepeat ==
  /\ ret.op = "run_for_one"
  /\ ret.flow = "red_precio"
  /\ ~ret.raised
  /\ Len(flags_licitaciones) = 1
  /\ Len(flags_log) = 2

\* the stored chunk vectors of a tender are all NULL, empty or not finite
NoUsableChunk(lid) ==
  \A k \in 1..Len(licitacion_chunk) :
    licitacion_chunk[k].licitacion_id = lid =>
      \A v \in licitacion_chunk[k].embedding_vec : Len(v.comps) = 0 \/ ~v.finite

\* C10: for a tender without usable chunk vector the price detector does not
\* raise, returns method "skip" with no comparables, zeroed statistics and no
\* neighbours, and the tender's red_precio assignment is stored false with the
\* comment saying that no embedding is available.
C10_NoEmbeddingSkips ==
  (ret.op = "run_for_one" /\ ret.flow = "red_precio" /\ ret.licitacion_id \in LicIds /\ NoUsableChunk(ret.licitacion_id)) =>
    /\ ~ret.raised
    /\ Len(ret.value.applied) = 1
    /\ LET d == ret.value.applied[1].result.detail
       IN /\ ret.value.applied[1].result.ok
          /\ d.method = "skip"
          /\ d.n_comparables = 0
          /\ d.median = 0 /\ d.lower = 0 /\ d.upper = 0 /\ d.z_mad = ZeroZ
          /\ d.neighbors = <<>>
    /\ \E i \in RowsOf(flags, flags_licitaciones, ret.licitacion_id, "red_precio") :
         /\ flags_licitaciones[i].valor = FALSE
         /\ flags_licitaciones[i].comentario = "Sin embedding/chunks validos para el target; no se puede calcular similitud con comparables."
         /\ flags_licitaciones[i].fuente = "flag_precio(skip)"

\* tender 3 holds a NULL, an empty and a non-finite vector and was run
C10_Witness ==
  /\ ret.op = "run_for_one"
  /\ ret.flow = "red_precio"
  /\ ret.licitacion_id = 3
  /\ NoUsableChunk(3)
  /\ \E k \in 1..Len(licitacion_chunk) : licitacion_chunk[k].licitacion_id = 3 /\ licitacion_chunk[k].embedding_vec # {}
  /\ ~ret.raised
  /\ RowsOf(flags, flags_licitaciones, 3, "red_precio") # {}

\* the tenders of the category of lid that hold a usable chunk vector
Comparables(lid) ==
  {c \in LicIds \ {lid} : /\ licitacion[c].modalidad = licitacion[lid].modalidad
                          /\ licitacion[c].act_econ = licitacion[lid].act_econ
                          /\ ~NoUsableChunk(c)
                          /\ \E k \in 1..Len(licitacion_chunk) : licitacion_chunk[k].licitacion_id = c}

\* C11: when fewer than the minimum number of the selected neighbours carry a
\* monetary value, the price detector stores flag=false with a comment giving
\* the number found and returns the skip result of the no-embedding exit:
\* method "skip", no comparables, zeroed statistics.
C11_TooFewIsSkip ==
  (/\ ret.op = "run_for_one" /\ ret.flow = "red_precio" /\ ret.licitacion_id \in LicIds
   /\ ~NoUsableChunk(ret.licitacion_id)
   /\ Comparables(ret.licitacion_id) # {}
   /\ Cardinality({c \in Comparables(ret.licitacion_id) : licitacion[c].cuantia # {}}) < MIN_NEIGHBORS_FOR_STATS) =>
    /\ ~ret.raised
    /\ Len(ret.value.applied) = 1
    /\ LET d == ret.value.applied[1].result.detail
       IN /\ d.method = "skip"
          /\ d.n_comparables = 0
          /\ d.median = 0 /\ d.lower = 0 /\ d.upper = 0 /\ d.z_mad = ZeroZ
    /\ \E i \in RowsOf(flags, flags_licitaciones, ret.licitacion_id, "red_precio") :
         /\ flags_licitaciones[i].valor = FALSE
         /\ flags_licitaciones[i].comentario =
              "Solo " \o ToString(Cardinality({c \in Comparables(ret.licitacion_id) : licitacion[c].cuantia # {}}))
                \o " comparables con cuantia; se requieren >= " \o ToString(MIN_NEIGHBORS_FOR_STATS) \o " para evaluacion robusta."

\* what does hold on that exit: the write, and a result that keeps the method
\* tag of an evaluation and reports the neighbours found
C11_TooFewAsReturned ==
  (/\ ret.op = "run_for_one" /\ ret.flow = "red_precio" /\ ret.licitacion_id \in LicIds
   /\ ~NoUsableChunk(ret.licitacion_id)
   /\ Comparables(ret.licitacion_id) # {}
   /\ Cardinality({c \in Comparables(ret.licitacion_id) : licitacion[c].cuantia # {}}) < MIN_NEIGHBORS_FOR_STATS) =>
    /\ ~ret.raised
    /\ LET d == ret.value.applied[1].result.detail
       IN /\ d.method = "chunks_mean_cos"
          /\ d.n_comparables = Cardinality({c \in Comparables(ret.licitacion_id) : licitacion[c].cuantia # {}})
          /\ Range(d.neighbors) = {c \in Comparables(ret.licitacion_id) : licitacion[c].cuantia # {}}
          /\ d.median = 0 /\ d.lower = 0 /\ d.upper = 0 /\ d.z_mad = ZeroZ
    /\ \E i \in RowsOf(flags, flags_licitaciones, ret.licitacion_id, "red_precio") : flags_licitaciones[i].valor = FALSE

\* tender 21 has one comparable, tender 22, which carries a value: the run
\* completed and stored the assignment
C11_Witness ==
  /\ ret.op = "run_for_one"
  /\ ret.flow = "red_precio"
  /\ ret.licitacion_id = 21
  /\ Comparables(21) = {22}
  /\ ~ret.raised
  /\ ret.value.applied[1].result.detail.neighbors = <<22>>
  /\ RowsOf(flags, flags_licitaciones, 21, "red_precio") # {}

\* C12: over the neighbour values 100 (nine times) and 1000000 the robust
\* statistics flag the target 1000000 as an outlier with |z_mad| >= 2.8, and
\* give z_mad = 0 and no flag for the target 100.
C12_OutlierByZMad ==
  (ret.op = "precio_stats" /\ ret.values = [i \in 1..10 |-> IF i = 10 THEN 1000000 ELSE 100]) =>
    /\ ret.target = 1000000 => (ret.out.valor /\ AbsZAtLeast(ret.out.res.stats.z_mad, Z_MAD_THRESHOLD))
    /\ ret.target = 100 => (ret.out.res.stats.z_mad.num = 0 /\ ~ret.out.valor)

\* over those values the median absolute deviation is 0, so z_mad is 0 for
\* every target; the target 1000000 is flagged because it lies above the upper
\* Tukey fence, which is 100, and the target 100 is not flagged
C12_OutlierByFence ==
  (ret.op = "precio_stats" /\ ret.values = [i \in 1..10 |-> IF i = 10 THEN 1000000 ELSE 100]) =>
    /\ ret.out.path = "evaluated"
    /\ ret.out.res.stats.median = 8 * 100
    /\ ret.out.res.stats.mad = 0
    /\ ret.out.res.stats.z_mad = ZeroZ
    /\ ret.out.res.stats.lower = 8 * 100 /\ ret.out.res.stats.upper = 8 * 100
    /\ ret.target = 1000000 => (ret.out.valor /\ ~AbsZAtLeast(ret.out.res.stats.z_mad, Z_MAD_THRESHOLD))
    /\ ret.target = 100 => ~ret.out.valor

\* the verdict for the target 1000000 over the values of the claim
C12_Witness ==
  /\ ret.op = "precio_stats"
  /\ ret.values = [i \in 1..10 |-> IF i = 10 THEN 1000000 ELSE 100]
  /\ ret.target = 1000000
  /\ ret.out.valor
  /\ ret.out.res.n_comparables = 10

\* C13: the date-gap detector writes a flag for a tender exactly when the tender
\* has a calendar row with both timestamps; without a row it returns ok=false
\* with the no-calendar reason, with a missing timestamp ok=false with the
\* incomplete-dates reason, and in both cases definitions, assignments and log
\* stay as they were.
C13_WritesIffDatesPresent ==
  [][(ret'.op = "run_for_one" /\ ret'.flow = "gap_fechas") =>
       /\ ~StoreUnchanged <=>
            /\ ret'.licitacion_id \in DOMAIN calendario
            /\ calendario[ret'.licitacion_id].aceptacion_ofertas_ts # {}
            /\ calendario[ret'.licitacion_id].apertura_ofertas_ts # {}
       /\ ret'.licitacion_id \notin DOMAIN calendario =>
            /\ ~ret'.raised
            /\ ret'.value.applied = << [flow |-> "gap_fechas", result |-> [ok |-> FALSE, flow |-> "gap_fechas", reason |-> "sin_calendario"]] >>
       /\ (/\ ret'.licitacion_id \in DOMAIN calendario
           /\ \/ calendario[ret'.licitacion_id].aceptacion_ofertas_ts = {}
              \/ calendario[ret'.licitacion_id].apertura_ofertas_ts = {}) =>
            /\ ~ret'.raised
            /\ ret'.value.applied = << [flow |-> "gap_fechas", result |-> [ok |-> FALSE, flow |-> "gap_fechas", reason |-> "fechas_incompletas"]] >>]_vars

\* C14: business_days(d1, d2, holidays) is the number of dates from the earlier
\* date up to, not including, the later date that are Monday to Friday and no
\* holiday; so it is 0 for d1 = d2, 5 from a Monday to the next Monday without
\* holidays, and 0 for a span inside one weekend.
C14_BusinessDaysCount ==
  (ret.op = "business_days" /\ ret.d1 # {} /\ ret.d2 # {}) =>
    LET a == (CHOOSE t \in ret.d1 : TRUE).d
        b == (CHOOSE t \in ret.d2 : TRUE).d
    IN /\ ret.days = {Cardinality({d \in Min2(a, b)..(Max2(a, b) - 1) : d % 7 \notin {5, 6} /\ d \notin ret.holidays})}
       /\ a = b => ret.days = {0}
       /\ (a % 7 = 0 /\ b = a + 7 /\ ret.holidays = {}) => ret.days = {5}
       /\ ({a, b} \subseteq {5, 6}) => ret.days = {0}

\* a Monday morning to the next Monday, no holidays: the five weekdays
C14_Witness ==
  /\ ret.op = "business_days"
  /\ ret.d1 = {Ts(0, 600)}
  /\ ret.d2 = {Ts(7, 0)}
  /\ ret.holidays = {}
  /\ ret.days = {5}

\* C15: business_days gives the same count for (d1, d2) and for (d2, d1), for
\* every pair of dates and every holiday set.
C15_BusinessDaysSymmetric == ret.op = "business_days" => ret.days = ret.swapped

\* the first date is the later one, a holiday lies between them
C15_Witness ==
  /\ ret.op = "business_days"
  /\ ret.d1 = {Ts(8, 0)}
  /\ ret.d2 = {Ts(0, 600)}
  /\ ret.holidays = {1, 2}
  /\ ret.days = {4}
  /\ ret.swapped = {4}

\* C16: the path search of the contact graph is bounded to 2 hops: a returned
\* path has at most 2 edges, and no path is returned when the shortest
\* connection needs 3 or more; on the chain A-B-C-D, A-C is found with 2 edges
\* and A-D is not found.
C16_PathWithinTwoHops ==
  (ret.op = "shortest_path" /\ ret.src \in DOMAIN ret.adj /\ ret.dst \in DOMAIN ret.adj /\ ret.src # ret.dst) =>
    /\ \A h \in ret.path : h <= 2
    /\ (/\ ret.dst \notin ret.adj[ret.src]
        /\ \A m \in ret.adj[ret.src] : ret.dst \notin ret.adj[m]) => ret.path = {}
    /\ ret.dst \in ret.adj[ret.src] => ret.path = {1}
    /\ (ret.dst \notin ret.adj[ret.src] /\ \E m \in ret.adj[ret.src] : ret.dst \in ret.adj[m]) => ret.path = {2}

\* C17: the contact detector returns ok=true, flag_applied=false and writes
\* nothing (no definition, assignment or log entry) when the payload is empty
\* or holds no person.
C17_NoPeopleOkNoWrite ==
  [][(/\ ret'.op = "red_contactos"
      /\ ~TruthyDict(ret'.json_override) \/ Get(ret'.json_override, "personas", <<>>) = <<>>) =>
       /\ ~ret'.raised
       /\ ret'.result.ok
       /\ ~ret'.result.flag_applied
       /\ StoreUnchanged]_vars

\* the same for a tender that exists; for a tender that does not, the detector
\* answers ok=false before it looks at the payload, and writes nothing either
C17_NoPeopleNoWrite ==
  [][(/\ ret'.op = "red_contactos"
      /\ ~TruthyDict(ret'.json_override) \/ Get(ret'.json_override, "personas", <<>>) = <<>>) =>
       /\ ~ret'.raised
       /\ StoreUnchanged
       /\ ret'.licitacion_id \in LicIds => (ret'.result.ok /\ ~ret'.result.flag_applied)
       /\ ret'.licitacion_id \notin LicIds => ret'.result = [ok |-> FALSE, detail |-> "Licitacion no existe"]]_vars

\* a payload that names a contractor and no person, for a tender that exists,
\* on a store an earlier run has written to
C17_Witness ==
  /\ ret.op = "red_contactos"
  /\ ret.licitacion_id = 1
  /\ ret.json_override = [contratistas |-> <<"Beto">>]
  /\ ret.result.ok
  /\ ~ret.result.flag_applied
  /\ flags_log # <<>>

\* C18: on an unchanged data snapshot, a run_for_one of a computable flow that
\* repeats the call before it (same tender, same flow, same payload) returns
\* the same result (neighbour ids, statistics, flag value) and leaves the
\* assignment with the value and texts it had.
C18_RepeatedRunSameResult ==
  [][(/\ ret.op = "run_for_one" /\ ret'.op = "run_for_one"
      /\ ret'.flow \in Computable
      /\ ret'.flow = ret.flow /\ ret'.licitacion_id = ret.licitacion_id /\ ret'.json_override = ret.json_override
      /\ ~ret.raised) =>
       /\ ~ret'.raised
       /\ ret'.value = ret.value
       /\ \A c \in {"red_precio", FLAG_CODE_FECHA} :
            /\ Cardinality(RowsOf(flags', flags_licitaciones', ret'.licitacion_id, c))
                 = Cardinality(RowsOf(flags, flags_licitaciones, ret.licitacion_id, c))
            /\ \A i \in RowsOf(flags', flags_licitaciones', ret'.licitacion_id, c) :
                 \E j \in RowsOf(flags, flags_licitaciones, ret.licitacion_id, c) :
                   /\ flags_licitaciones'[i].valor = flags_licitaciones[j].valor
                   /\ flags_licitaciones'[i].comentario = flags_licitaciones[j].comentario
                   /\ flags_licitaciones'[i].fuente = flags_licitaciones[j].fuente]_vars

\* tender 1 evaluated twice against its ten valued neighbours: one assignment,
\* two log entries of the same value
C18_Witness ==
  /\ ret.op = "run_for_one"
  /\ ret.flow = "red_precio"
  /\ ret.licitacion_id = 1
  /\ ~ret.raised
  /\ Len(ret.value.applied[1].result.detail.neighbors) = 10
  /\ ret.value.applied[1].result.flag_applied
  /\ Len(flags_licitaciones) = 1
  /\ flags_licitaciones[1].valor
  /\ Len(flags_log) = 2
  /\ flags_log[1].cambio = flags_log[2].cambio

\* C19: a chunk vector whose dimension is not the configured one, or with a
\* component that is not finite, counts as absent when a document vector is
\* pooled: the pooling does not fail and gives what the other rows alone give.
C19_InvalidVectorsAbsent ==
  ret.op = "docvec" =>
    /\ ~ret.out.raised
    /\ ret.out = DocVec(SelectSeq(ret.rows, LAMBDA r : \A v \in r.embedding_vec : v.finite /\ Len(v.comps) = EMBED_DIMS))

\* C20: for a tender whose calendar row has both dates the date-gap detector
\* stores the flag F-GAP-APERT with the value business_days > threshold, the
\* threshold being 5 unless the payload gives one, and the flag_applied of its
\* result is the stored value.
C20_GapFlagPersisted ==
  (/\ ret.op = "run_for_one" /\ ret.flow = "gap_fechas"
   /\ ret.licitacion_id \in DOMAIN calendario
   /\ calendario[ret.licitacion_id].aceptacion_ofertas_ts # {}
   /\ calendario[ret.licitacion_id].apertura_ofertas_ts # {}) =>
    LET a == (CHOOSE t \in calendario[ret.licitacion_id].aceptacion_ofertas_ts : TRUE).d
        b == (CHOOSE t \in calendario[ret.licitacion_id].apertura_ofertas_ts : TRUE).d
        holidays == IF TruthyDict(ret.json_override) /\ "holidays" \in DOMAIN ret.json_override THEN ret.json_override.holidays ELSE {}
        threshold == IF TruthyDict(ret.json_override) /\ "threshold" \in DOMAIN ret.json_override THEN ret.json_override.threshold ELSE 5
        days == Cardinality({d \in Min2(a, b)..(Max2(a, b) - 1) : d % 7 \notin {5, 6} /\ d \notin holidays})
    IN /\ ~ret.raised
       /\ Len(ret.value.applied) = 1
       /\ \E i \in RowsOf(flags, flags_licitaciones, ret.licitacion_id, FLAG_CODE_FECHA) :
            /\ flags_licitaciones[i].valor = (days > threshold)
            /\ ret.value.applied[1].result.flag_applied = flags_licitaciones[i].valor

----------------------------------------------------------------------------
(* Properties of the contact detector's decision *)

\* b is reached from a in at most two edges
Within2(adj, a, b) ==
  /\ a # b
  /\ a \in DOMAIN adj
  /\ b \in adj[a] \/ \E m \in adj[a] : m \in DOMAIN adj /\ b \in adj[m]

\* the graph of the people of a v2 payload
GraphOf(json_override) == build_graph(_from_v2_people(json_override).people)

\* C21: a contact-detector run that takes no early exit persists the contact
\* flag exactly once (one assignment for the tender, one log entry appended)
\* with the value it returns as flag_applied, and flag_applied is true exactly
\* when some (official, contractor) pair is joined by a path of at most 2
\* hops; it is false in both no-match branches.
C21_AppliedIffPairWithinTwoHops ==
  [][(ret'.op = "red_contactos" /\ ~ret'.raised /\ ret'.result.ok /\ "comment" \in DOMAIN ret'.result) =>
       /\ Len(flags_log') = Len(flags_log) + 1
       /\ Cardinality(RowsOf(flags', flags_licitaciones', ret'.licitacion_id, FLAG_CODE_CONTACTOS)) = 1
       /\ \A i \in RowsOf(flags', flags_licitaciones', ret'.licitacion_id, FLAG_CODE_CONTACTOS) :
            /\ flags_licitaciones'[i].valor = ret'.result.flag_applied
            /\ flags_log'[Len(flags_log')].flags_licitaciones_id = flags_licitaciones'[i].id
       /\ ret'.result.flag_applied <=>
            \E o \in Range(ret'.result.detail.official_ids), c \in Range(ret'.result.detail.contractor_ids) :
              Within2(GraphOf(ret'.json_override), o, c)]_vars

\* the name a payload gives to the person of an id
PayloadName(json_override, id) ==
  json_override.personas[CHOOSE i \in 1..Len(json_override.personas) : json_override.personas[i].id = id].nombre

\* the position of x in a list without repetitions
IndexOf(xs, x) == CHOOSE i \in 1..Len(xs) : xs[i] = x

\* C22: every recorded match has score 30 when its path is 1 hop and 18 when
\* it is 2 hops, and no other score occurs; the matches are recorded in
\* iteration order (officials outer, contractors inner), and the best match,
\* the one the comment names, is the highest-scoring one, the first of them in
\* iteration order when scores are equal.
C22_ScoresAndFirstBest ==
  (ret.op = "red_contactos" /\ ~ret.raised /\ ret.result.ok /\ "comment" \in DOMAIN ret.result) =>
    LET matches == ret.result.detail.matches
        pos(k) == <<IndexOf(ret.result.detail.official_ids, matches[k].oficial_id),
                    IndexOf(ret.result.detail.contractor_ids, matches[k].contratista_id)>>
    IN /\ \A k \in 1..Len(matches) :
            /\ matches[k].score \in {30, 18}
            /\ matches[k].path_len = 1 => matches[k].score = 30
            /\ matches[k].path_len = 2 => matches[k].score = 18
       /\ \A j, k \in 1..Len(matches) :
            j < k => (pos(j)[1] < pos(k)[1] \/ (pos(j)[1] = pos(k)[1] /\ pos(j)[2] < pos(k)[2]))
       /\ matches # <<>> =>
            \E k \in 1..Len(matches) :
              /\ \A j \in 1..Len(matches) : matches[j].score <= matches[k].score
              /\ \A j \in 1..(k - 1) : matches[j].score < matches[k].score
              /\ ret.result.comment =
                   "[red_contactos] Mejor coincidencia: " \o PayloadName(ret.json_override, matches[k].oficial_id) \o " - "
                   \o PayloadName(ret.json_override, matches[k].contratista_id) \o " en " \o ToString(matches[k].path_len)
                   \o " salto(s). Total coincidencias: " \o ToString(Len(matches)) \o "."

\* four matches, the second and the fourth direct: the comment names the second
C22_Witness ==
  /\ ret.op = "red_contactos"
  /\ ~ret.raised
  /\ ret.result.ok
  /\ "comment" \in DOMAIN ret.result
  /\ Len(ret.result.detail.matches) = 4
  /\ ret.result.detail.matches[1].score = 18
  /\ ret.result.detail.matches[2].score = 30
  /\ ret.result.detail.matches[4].score = 30
  /\ ret.result.comment = "[red_contactos] Mejor coincidencia: Ana - Caro en 1 salto(s). Total coincidencias: 4."

----------------------------------------------------------------------------
(* Properties of the contact graph *)

\* the target a connection is meant to resolve to: a person of its con_id, else
\* the first person of its name; {} when there is none
Resolved(people, c) ==
  IF Truthy(c.con_id) THEN {people[i].id : i \in {j \in 1..Len(people) : people[j].id = c.con_id}}
  ELSE {people[i].id : i \in {j \in 1..Len(people) :
                                 /\ Truthy(c.con_nombre)
                                 /\ Lower(people[j].nombre) = Lower(c.con_nombre)
                                 /\ \A k \in 1..(j - 1) : Lower(people[k].nombre) # Lower(c.con_nombre)}}

\* C23: the graph built from a list of persons is undirected and closed over
\* the persons: adjacency is symmetric, no node is adjacent to itself, every
\* node and every edge endpoint is the id of a person of the payload, and two
\* persons are adjacent exactly when a connection of one resolves to the other;
\* a connection whose target resolves to no person adds no node and no edge.
C23_GraphClosedOverPersons ==
  ret.op = "build_graph" =>
    LET ids == {ret.people[i].id : i \in 1..Len(ret.people)}
        declared(a, b) == \E i \in 1..Len(ret.people) :
                            /\ ret.people[i].id = a
                            /\ \E k \in 1..Len(ret.people[i].conexiones) : b \in Resolved(ret.people, ret.people[i].conexiones[k])
    IN /\ DOMAIN ret.adj = ids
       /\ \A n \in DOMAIN ret.adj :
            /\ n \notin ret.adj[n]
            /\ ret.adj[n] \subseteq ids
            /\ \A m \in ret.adj[n] : m \in DOMAIN ret.adj /\ n \in ret.adj[m]
       /\ \A a, b \in ids : (a \in DOMAIN ret.adj /\ b \in ret.adj[a]) <=> (a # b /\ (declared(a, b) \/ declared(b, a)))

\* the ids of the persons carrying a name, in payload order
IdsOfName(people, n) ==
  LET same == SelectSeq(people, LAMBDA q : Truthy(n) /\ Truthy(q.nombre) /\ Lower(q.nombre) = Lower(n))
  IN [k \in 1..Len(same) |-> same[k].id]

\* C24: when persons of the payload share a name, case-insensitively, a name
\* resolves to the id of the first of them in payload order, both for the
\* target of a connection in build_graph and for the names of the explicit
\* contractor list in pick_contractor_ids.
C24_FirstOfNameWins ==
  ret.op = "build_graph" =>
    LET tagged == SelectSeq(ret.people, LAMBDA q : q.es_contratista)
        named == SelectSeq(ret.json_override.contratistas, LAMBDA n : IdsOfName(ret.people, n) # <<>>)
    IN /\ \A i \in 1..Len(ret.people) : \A k \in 1..Len(ret.people[i].conexiones) :
            LET c == ret.people[i].conexiones[k]
            IN (~Truthy(c.con_id) /\ IdsOfName(ret.people, c.con_nombre) # <<>> /\ IdsOfName(ret.people, c.con_nombre)[1] # ret.people[i].id) =>
                 IdsOfName(ret.people, c.con_nombre)[1] \in ret.adj[ret.people[i].id]
       /\ ret.contractor_ids = Dedupe([k \in 1..Len(tagged) |-> tagged[k].id] \o [k \in 1..Len(named) |-> IdsOfName(ret.people, named[k])[1]])

----------------------------------------------------------------------------
(* Properties of the orchestrator's report and of its transaction *)

\* C27: the flag_applied the orchestrator reports for the price flow equals
\* the value the price detector stored in the red_precio assignment of the
\* tender, on every path: no embedding, no candidates, too few neighbours,
\* no target value, evaluated.
C27_ReportedEqualsPersisted ==
  (ret.op = "run_for_one" /\ ret.flow = "red_precio" /\ ~ret.raised) =>
    /\ RowsOf(flags, flags_licitaciones, ret.licitacion_id, "red_precio") # {}
    /\ \A i \in RowsOf(flags, flags_licitaciones, ret.licitacion_id, "red_precio") :
         flags_licitaciones[i].valor = ret.value.applied[1].result.flag_applied

\* C28: in a run_for_one with flow "all", the assignment and the log entry
\* written by a computable flow that completed stay committed when a later
\* flow of the same run fails.  The price flow is the first of the run and
\* completes for every tender that exists, so a run that fails has failed in
\* a later flow: the red_precio assignment and its log entry must be there.
C28_EarlierFlowStaysCommitted ==
  [][(ret'.op = "run_for_one" /\ ret'.flow = "all" /\ ret'.licitacion_id \in LicIds /\ ret'.raised) =>
       /\ Len(flags_log') = Len(flags_log) + 1
       /\ \E i \in RowsOf(flags', flags_licitaciones', ret'.licitacion_id, "red_precio") :
            /\ flags_licitaciones'[i].id = flags_log'[Len(flags_log')].flags_licitaciones_id
            /\ flags_licitaciones'[i].valor = PrecioDefault[ret'.licitacion_id].valor]_vars

\* C29: run_for_one on a tender id that does not exist writes no flag
\* assignment and no log entry, for every flow (price, date gap, contact
\* network, "all", an unknown name) and every payload; it writes no flag
\* definition either.
C29_MissingTenderNoWrite ==
  [][(ret'.op = "run_for_one" /\ ret'.licitacion_id \notin LicIds) =>
       /\ flags_licitaciones' = flags_licitaciones
       /\ flags_log' = flags_log
       /\ flags' = flags]_vars

\* a run of "all" for the missing tender 99 on a store earlier runs have written
C29_Witness ==
  /\ ret.op = "run_for_one"
  /\ ret.licitacion_id = 99
  /\ ret.flow = "all"
  /\ ret.raised
  /\ flags_licitaciones # <<>>
  /\ flags_log # <<>>
  /\ \A i \in 1..Len(flags_licitaciones) : flags_licitaciones[i].licitacion_id # 99

----------------------------------------------------------------------------
(* Referential integrity of the flag store *)

\* C30: in every reachable state of the flag store every assignment
\* references an existing flag definition (set_flag creates the definition of
\* an unknown code) and every log entry references an existing assignment.
C30_ReferentialIntegrity ==
  /\ \A i \in 1..Len(flags_licitaciones) : \E k \in 1..Len(flags) : flags[k].id = flags_licitaciones[i].flag_id
  /\ \A j \in 1..Len(flags_log) : \E i \in 1..Len(flags_licitaciones) : flags_licitaciones[i].id = flags_log[j].flags_licitaciones_id

\* two definitions created by set_flag, an assignment of each, three log entries
C30_Witness ==
  /\ ret.op = "set_flag"
  /\ ~ret.raised
  /\ Len(flags) = 2
  /\ Len(flags_licitaciones) = 2
  /\ flags_licitaciones[1].flag_id # flags_licitaciones[2].flag_id
  /\ Len(flags_log) = 3

----------------------------------------------------------------------------
(* Properties of concurrent requests *)

\* C25: two concurrent set_flag invocations for the same tender and flag
\* code both complete under every interleaving of their steps; afterwards
\* there is exactly one assignment for the pair, it carries the values of the
\* invocation that committed last, and the log holds one entry per invocation.
C25_ConcurrentSetFlagLastWriteWins ==
  (\A t \in Threads : threads[t].pc \in {"done", "failed"}) =>
    /\ \A t \in Threads : threads[t].pc = "done"
    /\ Cardinality(RowsOf(flags, flags_licitaciones, 1, "red_precio")) = 1
    /\ \A i \in RowsOf(flags, flags_licitaciones, 1, "red_precio") :
         /\ flags_licitaciones[i].valor = calls[Len(calls)].valor
         /\ flags_licitaciones[i].fecha_detectado = calls[Len(calls)].fecha
    /\ Len(flags_log) = Len(calls)
    /\ \A t \in Threads : \E j \in 1..Len(flags_log) : flags_log[j].fecha = threads[t].fecha

\* C26: the status-mismatch penalty is a parameter of the invocation: when two
\* price-detector invocations with different weights interleave, each scores
\* every one of its candidates with its own weight.
C26_OwnPenaltyPerInvocation ==
  \A t \in Threads : threads[t].pc \in {"scoring", "done"} =>
    \A k \in 1..Len(threads[t].scored) :
      threads[t].scored[k].score =
        _cosine_distance(threads[t].t_vec, threads[t].vecs[threads[t].scored[k].id])
        + (IF licitacion[threads[t].scored[k].id].estado # threads[t].t_meta.estado THEN threads[t].penalty_estado ELSE 0)

=============================================================================
